---- MODULE Spec2Model ----
(***************************************************************************)
(* The banking assistant's ledger (src/database.py), its operation library *)
(* (src/tools/banking_operations.py) and its tool executor                 *)
(* (src/mcp/executor.py), as a state machine.                              *)
(*                                                                         *)
(* A process is one running instance of the assistant.  Every store method *)
(* opens a connection of its own on the shared database file, so a         *)
(* transfer is modelled statement by statement: the two SELECTs run in     *)
(* autocommit, the first UPDATE opens the write transaction (SQLite lets   *)
(* one connection write at a time), and COMMIT publishes the pending       *)
(* writes in one step.  Monetary amounts are whole currency units.         *)
(***************************************************************************)
EXTENDS Integers, Sequences, FiniteSets, TLC

\* ---------------------------------------------------------------- bounds
MaxSetups == 1
MaxCalls == 2
MaxTime == 1
MaxPlans == 1
MaxDays == 40
MaxQueries == 1
MaxTenths == 25
MaxLimit == 3
MaxModelCalls == 3

\* ------------------------------------------------------ program constants
TransferLimit == 1000000
Account1Balance == 5000
Account2Balance == 2000

VARIABLES
    users,          \* number of rows of table users (ids 1..users)
    accounts,       \* table accounts: accounts[id] = [user_id, balance]
    transactions,   \* table transactions, in insertion order
    now,            \* the wall clock datetime.now() reads
    proc,           \* proc[p]: the control state of process p
    setups,         \* `setup` commands issued so far
    calls           \* library calls issued so far

vars == <<users, accounts, transactions, now, proc, setups, calls>>

\* ------------------------------------------------------------ Python values
None == [t |-> "none"]
IntV(n) == [t |-> "int", n |-> n]
StrV(s) == [t |-> "str", s |-> s]
\* A str given by its characters, where the characters matter.
TextV(chars) == [t |-> "text", chars |-> chars]
\* A finite float, in tenths; the floats inf and nan; a list.
FloatV(tenths) == [t |-> "float", tenths |-> tenths]
Inf == [t |-> "inf"]
NaN == [t |-> "nan"]
ListV == [t |-> "list"]

\* Python truthiness of a parameter value: None, 0, 0.0, "" and [] are falsy.
Truthy(v) == \/ v.t = "int" /\ v.n # 0
             \/ v.t = "str" /\ v.s # ""
             \/ v.t = "text" /\ v.chars # <<>>
             \/ v.t = "float" /\ v.tenths # 0
             \/ v.t \in {"inf", "nan"}

\* a or b
PyOr(a, b) == IF Truthy(a) THEN a ELSE b

\* ------------------------------------------------------------ ledger store
AccountIds == 1..Len(accounts)

AccountExists(id) == id \in AccountIds

\* Variant: a missing row read as a balance of zero.
SelectBalance_DefaultsZero(id) ==
    IF AccountExists(id) THEN IntV(accounts[id].balance) ELSE IntV(0)

\* SELECT balance FROM accounts WHERE id = ?  ->  fetchone()
SelectBalance(id) == IF AccountExists(id) THEN IntV(accounts[id].balance) ELSE None

\* The balances of all accounts summed.
RECURSIVE SumBalances(_)
SumBalances(accts) ==
    IF accts = <<>> THEN 0
    ELSE accts[Len(accts)].balance + SumBalances(SubSeq(accts, 1, Len(accts) - 1))

\* Pending UPDATE accounts SET balance = ? WHERE id = ?, applied in order.
RECURSIVE ApplyUpdates(_, _)
ApplyUpdates(accts, ups) ==
    IF ups = <<>> THEN accts
    ELSE LET u == Head(ups)
             a == IF u.id \in 1..Len(accts)
                  THEN [accts EXCEPT ![u.id].balance = u.balance]
                  ELSE accts
         IN ApplyUpdates(a, Tail(ups))

Row(account_id, type, amount, timestamp) ==
    [account_id |-> account_id, type |-> type, amount |-> amount,
     timestamp |-> timestamp]

Msg(text, arg) == [text |-> text, arg |-> arg]

NoRet == [success |-> FALSE, message |-> Msg("", 0)]
NoResult == [success |-> FALSE, error |-> Msg("", 0)]

NoParameters ==
    [account_id |-> None, from_account |-> None, recipient_account |-> None,
     to_account |-> None, amount |-> None, limit |-> None, time_period |-> None]

\* config.GROQ_MODEL and config.GROQ_FALLBACK_MODELS
GROQ_MODEL == "llama-3.3-70b-versatile"

GROQ_FALLBACK_MODELS ==
    <<"llama-3.1-8b-instant", "mixtral-8x7b-32768", "gemma2-9b-it">>

\* A plan: {"steps": [...], "requires_validation": ...}
NoPlan == [steps |-> <<>>, requires_validation |-> FALSE]

\* A process between calls.  op and the arguments are those of its last call,
\* ret and result what that call returned.
Idle ==
    [pc |-> "idle", entry |-> "none", op |-> "none",
     tool_name |-> None, normalized_tool |-> None, parameters |-> NoParameters,
     from_account_id |-> 0, to_account_id |-> 0, amount |-> 0,
     from_account |-> None, to_account |-> None,
     new_from_balance |-> 0, new_to_balance |-> 0, timestamp |-> 0,
     updates |-> <<>>, inserts |-> <<>>, in_txn |-> FALSE,
     ret |-> NoRet, result |-> NoResult, caught |-> FALSE,
     caller |-> "none", pipeline |-> FALSE, plan |-> NoPlan, step |-> 0,
     all_results |-> <<>>, step_results |-> <<>>, arg |-> None, out |-> None,
     parser_model |-> GROQ_MODEL, planner_model |-> GROQ_MODEL, attempt |-> 0,
     parse_failures |-> 0, plan_failures |-> 0, parsed |-> None,
     intent |-> "", entities |-> NoParameters, llm_plan |-> None,
     validated |-> 0, reply |-> None, user_input |-> None, printed |-> None,
     tried |-> <<>>]

\* The record of a process that starts on its next input: the clients of
\* the classifier and of the planner keep the model they switched to.
Fresh(c) ==
    [Idle EXCEPT !.parser_model = c.parser_model,
                 !.planner_model = c.planner_model]

Procs == DOMAIN proc

\* SQLite's write lock: held from a connection's first UPDATE to its COMMIT
\* or ROLLBACK.
LockedByOther(p) == \E q \in Procs \ {p} : proc[q].in_txn

\* --------------------------------------------------------------- inputs
\* Account identifiers a caller may name: the two accounts of the first
\* `setup` and one that exists only after a second.
AccountArgs == 1..3

\* Amounts a caller of transfer_money may name: below, at and above both
\* edges of the amount gate, and one every account can afford.
TransferAmounts == {0 - 100, 0, 100, TransferLimit, TransferLimit + 1}

\* Amounts a caller of simulate_transaction may name: below, at and above a
\* balance.
SimulateAmounts == {0 - 100, 100, Account2Balance, 10000}

\* ---------------------------------------------------------- initial state
InitStore ==
    /\ users = 0
    /\ accounts = <<>>
    /\ transactions = <<>>
    /\ now = 0
    /\ setups = 0
    /\ calls = 0

\* One assistant process on the database file.
Init == InitStore /\ proc = [p \in {1} |-> Idle]

\* Two assistant processes on the same database file.
InitConcurrent == InitStore /\ proc = [p \in {1, 2} |-> Idle]

\* ------------------------------------------------------------------ clock
Tick ==
    /\ now < MaxTime
    /\ now' = now + 1
    /\ UNCHANGED <<users, accounts, transactions, proc, setups, calls>>

\* ------------------------------------------------------------------ setup
\* BankingAgent.setup_demo_data, one store call per step.
SetupCall(p) ==
    /\ proc[p].pc = "idle"
    /\ setups < MaxSetups
    /\ setups' = setups + 1
    /\ proc' = [proc EXCEPT ![p] = [Fresh(proc[p]) EXCEPT !.pc = "create_user"]]
    /\ UNCHANGED <<users, accounts, transactions, now, calls>>

\* BankingDatabase.create_user
CreateUser(p) ==
    /\ proc[p].pc = "create_user"
    /\ ~LockedByOther(p)
    /\ users' = users + 1
    /\ proc' = [proc EXCEPT ![p].pc = "create_account1",
                            ![p].from_account_id = users + 1]
    /\ UNCHANGED <<accounts, transactions, now, setups, calls>>

\* BankingDatabase.create_account
InsertAccount(user_id, initial_balance) ==
    Append(accounts, [user_id |-> user_id, balance |-> initial_balance])

CreateAccount1(p) ==
    /\ proc[p].pc = "create_account1"
    /\ ~LockedByOther(p)
    /\ accounts' = InsertAccount(proc[p].from_account_id, Account1Balance)
    /\ proc' = [proc EXCEPT ![p].pc = "create_account2"]
    /\ UNCHANGED <<users, transactions, now, setups, calls>>

CreateAccount2(p) ==
    /\ proc[p].pc = "create_account2"
    /\ ~LockedByOther(p)
    /\ accounts' = InsertAccount(proc[p].from_account_id, Account2Balance)
    /\ proc' = [proc EXCEPT ![p] = Fresh(proc[p])]
    /\ UNCHANGED <<users, transactions, now, setups, calls>>

\* ------------------------------------------- BankingOperations.transfer_money
\* A caller of the operation library enters transfer_money.
OpsTransferCall(p) ==
    /\ proc[p].pc = "idle"
    /\ calls < MaxCalls
    /\ calls' = calls + 1
    /\ \E f \in AccountArgs, t \in AccountArgs, a \in TransferAmounts :
         proc' = [proc EXCEPT ![p] = [Idle EXCEPT !.pc = "ops_transfer",
                                                  !.entry = "ops",
                                                  !.op = "transfer_money",
                                                  !.from_account_id = f,
                                                  !.to_account_id = t,
                                                  !.amount = a]]
    /\ UNCHANGED <<users, accounts, transactions, now, setups>>

\* Where a process goes when transfer_money returns r to its caller: the
\* locals of the call are gone and its connection is closed.  The executor
\* keeps the arguments, which are locals of its own.
Return(c, r) ==
    [c EXCEPT !.pc = IF c.entry = "tool" THEN "tool_transfer_done" ELSE "idle",
              !.ret = r,
              !.from_account_id = IF c.entry = "tool" THEN @ ELSE 0,
              !.to_account_id = IF c.entry = "tool" THEN @ ELSE 0,
              !.amount = IF c.entry = "tool" THEN @ ELSE 0,
              !.from_account = None, !.to_account = None,
              !.new_from_balance = 0, !.new_to_balance = 0, !.timestamp = 0,
              !.updates = <<>>, !.inserts = <<>>, !.in_txn = FALSE]

\* Variant: an amount of zero passes.
AmountTooSmall_AllowsZero(amount) == amount < 0

AmountTooSmall(amount) == amount <= 0

\* Variant: the ceiling itself is rejected.
AmountTooLarge_AtLimit(amount) == amount >= TransferLimit

AmountTooLarge(amount) == amount > TransferLimit

\* The amount gate, then the call of the store.
OpsTransferGate(p) ==
    /\ proc[p].pc = "ops_transfer"
    /\ LET c == proc[p] IN
         proc' = [proc EXCEPT ![p] =
            IF AmountTooSmall(c.amount)
            THEN Return(c, [success |-> FALSE,
                            message |-> Msg("Amount must be positive", 0)])
            ELSE IF AmountTooLarge(c.amount)
            THEN Return(c, [success |-> FALSE,
                            message |-> Msg("Amount exceeds maximum transfer limit", 0)])
            ELSE [c EXCEPT !.pc = "select_from"]]
    /\ UNCHANGED <<users, accounts, transactions, now, setups, calls>>

\* -------------------------------------------- BankingDatabase.transfer_money
SelectFrom(p) ==
    /\ proc[p].pc = "select_from"
    /\ LET c == proc[p]
           row == SelectBalance(c.from_account_id) IN
         proc' = [proc EXCEPT ![p] =
            IF row = None
            THEN Return(c, [success |-> FALSE,
                            message |-> Msg("Source account not found",
                                            c.from_account_id)])
            ELSE [c EXCEPT !.pc = "select_to", !.from_account = row]]
    /\ UNCHANGED <<users, accounts, transactions, now, setups, calls>>

\* Variant: only an overdrawn source is refused.
InsufficientBalance_Unchecked(balance, amount) == balance < 0

InsufficientBalance(balance, amount) == balance < amount

\* The second SELECT, the balance check and the two new balances.
SelectTo(p) ==
    /\ proc[p].pc = "select_to"
    /\ LET c == proc[p]
           row == SelectBalance(c.to_account_id) IN
         proc' = [proc EXCEPT ![p] =
            IF row = None
            THEN Return(c, [success |-> FALSE,
                            message |-> Msg("Destination account not found",
                                            c.to_account_id)])
            ELSE IF InsufficientBalance(c.from_account.n, c.amount)
            THEN Return(c, [success |-> FALSE,
                            message |-> Msg("Insufficient balance. Available",
                                            c.from_account.n)])
            ELSE [c EXCEPT !.pc = "update_from", !.to_account = row,
                           !.new_from_balance = c.from_account.n - c.amount,
                           !.new_to_balance = row.n + c.amount]]
    /\ UNCHANGED <<users, accounts, transactions, now, setups, calls>>

\* The first UPDATE opens the write transaction.
UpdateFrom(p) ==
    /\ proc[p].pc = "update_from"
    /\ ~LockedByOther(p)
    /\ LET c == proc[p] IN
         proc' = [proc EXCEPT ![p] =
            [c EXCEPT !.pc = "update_to", !.in_txn = TRUE,
                      !.updates = Append(c.updates,
                          [id |-> c.from_account_id, balance |-> c.new_from_balance])]]
    /\ UNCHANGED <<users, accounts, transactions, now, setups, calls>>

UpdateTo(p) ==
    /\ proc[p].pc = "update_to"
    /\ LET c == proc[p] IN
         proc' = [proc EXCEPT ![p] =
            [c EXCEPT !.pc = "insert_debit",
                      !.updates = Append(c.updates,
                          [id |-> c.to_account_id, balance |-> c.new_to_balance])]]
    /\ UNCHANGED <<users, accounts, transactions, now, setups, calls>>

\* timestamp = datetime.now().isoformat(), then the debit row.
InsertDebit(p) ==
    /\ proc[p].pc = "insert_debit"
    /\ LET c == proc[p] IN
         proc' = [proc EXCEPT ![p] =
            [c EXCEPT !.pc = "insert_credit", !.timestamp = now,
                      !.inserts = Append(c.inserts,
                          Row(c.from_account_id, "debit", c.amount, now))]]
    /\ UNCHANGED <<users, accounts, transactions, now, setups, calls>>

\* Variant: the credit row reads the clock again.
CreditRow_ReadsClockAgain(c) == Row(c.to_account_id, "credit", c.amount, now)

CreditRow(c) == Row(c.to_account_id, "credit", c.amount, c.timestamp)

InsertCredit(p) ==
    /\ proc[p].pc = "insert_credit"
    /\ LET c == proc[p] IN
         proc' = [proc EXCEPT ![p] =
            [c EXCEPT !.pc = "commit",
                      !.inserts = Append(c.inserts, CreditRow(c))]]
    /\ UNCHANGED <<users, accounts, transactions, now, setups, calls>>

\* conn.commit(): the pending writes reach the database file together.
Commit(p) ==
    /\ proc[p].pc = "commit"
    /\ LET c == proc[p] IN
         /\ accounts' = ApplyUpdates(accounts, c.updates)
         /\ transactions' = transactions \o c.inserts
         /\ proc' = [proc EXCEPT ![p] =
               Return(c, [success |-> TRUE,
                          message |-> Msg("Successfully transferred", c.amount)])]
    /\ UNCHANGED <<users, now, setups, calls>>

\* The statements of the try block that reach the storage layer.
StorePcs == {"select_from", "select_to", "update_from", "update_to",
             "insert_debit", "insert_credit", "commit"}

\* The line of src/database.py a statement starts at: what an exception
\* raised there reports.
StatementLine(pc) ==
    CASE pc = "select_from" -> 135
      [] pc = "select_to" -> 140
      [] pc = "update_from" -> 153
      [] pc = "update_to" -> 157
      [] pc = "insert_debit" -> 164
      [] pc = "insert_credit" -> 169
      [] pc = "commit" -> 175

\* Variant: the except branch commits the pending balance updates.
RollbackAccounts_Commits(c) == ApplyUpdates(accounts, c.updates)

\* What conn.rollback() leaves in the database file of the connection's
\* pending writes.
RollbackAccounts(c) == accounts

\* Variant: the rows inserted before the exception stay in the log.
RollbackTransactions_KeepsInserts(c) == transactions \o c.inserts

RollbackTransactions(c) == transactions

\* except Exception: conn.rollback(); conn.close(); return False, "Transfer failed: ..."
Except(p) ==
    LET c == proc[p] IN
    /\ accounts' = RollbackAccounts(c)
    /\ transactions' = RollbackTransactions(c)
    /\ proc' = [proc EXCEPT ![p] =
          Return(c, [success |-> FALSE,
                     message |-> Msg("Transfer failed", StatementLine(c.pc))])]
    /\ UNCHANGED <<users, now, setups, calls>>

\* The storage layer raises in the statement the process is at.
StoreException(p) ==
    /\ proc[p].pc \in StorePcs
    /\ Except(p)

\* Another connection holds the write lock until the busy timeout expires:
\* the first UPDATE raises "database is locked".
Busy(p) ==
    /\ proc[p].pc = "update_from"
    /\ LockedByOther(p)
    /\ Except(p)

\* ------------------------------------------------ BankingOperations reads
\* BankingOperations.get_balance: (balance, error)
GetBalance(account_id) ==
    LET balance == SelectBalance(account_id) IN
    IF balance = None
    THEN [balance |-> None, error |-> Msg("Account not found", account_id)]
    ELSE [balance |-> balance, error |-> None]

\* Variant: a projected balance of zero is not affordable.
Affordable_Strict(projected_balance) == projected_balance > 0

Affordable(projected_balance) == projected_balance >= 0

\* BankingOperations.simulate_transaction
SimulateTransaction(account_id, amount) ==
    LET b == GetBalance(account_id) IN
    IF b.error # None
    THEN [affordable |-> FALSE, current_balance |-> 0,
          projected_balance |-> 0 - amount, amount |-> amount,
          error |-> b.error]
    ELSE LET projected_balance == b.balance.n - amount IN
         [affordable |-> Affordable(projected_balance),
          current_balance |-> b.balance.n,
          projected_balance |-> projected_balance, amount |-> amount]

\* Variant: the simulation debits the account.
SimulateAccounts_Debits(account_id, amount) ==
    IF AccountExists(account_id)
    THEN [accounts EXCEPT ![account_id].balance = @ - amount]
    ELSE accounts

\* What simulate_transaction leaves in the accounts table.
SimulateAccounts(account_id, amount) == accounts

\* A caller of the operation library runs simulate_transaction.
OpsSimulate(p) ==
    /\ proc[p].pc = "idle"
    /\ calls < MaxCalls
    /\ calls' = calls + 1
    /\ \E id \in AccountArgs, a \in SimulateAmounts :
         /\ accounts' = SimulateAccounts(id, a)
         /\ proc' = [proc EXCEPT ![p] =
               [Idle EXCEPT !.entry = "ops", !.op = "simulate_transaction",
                            !.from_account_id = id, !.amount = a,
                            !.result = SimulateTransaction(id, a)]]
    /\ UNCHANGED <<users, transactions, now, setups>>

\* BankingDatabase.get_recent_transactions: the rows of one account, most
\* recent first (rows of one timestamp in insertion order), at most limit.
RECURSIVE RowsOf(_, _)
RowsOf(rows, account_id) ==
    IF rows = <<>> THEN <<>>
    ELSE IF Head(rows).account_id = account_id
         THEN <<Head(rows)>> \o RowsOf(Tail(rows), account_id)
         ELSE RowsOf(Tail(rows), account_id)

RECURSIVE InsertByTimestamp(_, _)
InsertByTimestamp(sorted, row) ==
    IF sorted = <<>> THEN <<row>>
    ELSE IF Head(sorted).timestamp >= row.timestamp
         THEN <<Head(sorted)>> \o InsertByTimestamp(Tail(sorted), row)
         ELSE <<row>> \o sorted

RECURSIVE OrderByTimestampDesc(_)
OrderByTimestampDesc(rows) ==
    IF rows = <<>> THEN <<>>
    ELSE InsertByTimestamp(OrderByTimestampDesc(SubSeq(rows, 1, Len(rows) - 1)),
                           rows[Len(rows)])

\* Variant: the limit is not applied.
Limit_Unlimited(rows, n) == rows

Limit(rows, n) == IF n < 0 \/ n >= Len(rows) THEN rows ELSE SubSeq(rows, 1, n)

\* The rows of the table with their id column (AUTOINCREMENT from 1).
WithIds(rows) ==
    [i \in 1..Len(rows) |->
        [id |-> i, account_id |-> rows[i].account_id, type |-> rows[i].type,
         amount |-> rows[i].amount, timestamp |-> rows[i].timestamp]]

\* SELECT id, type, amount, timestamp
Columns(rows) ==
    [i \in 1..Len(rows) |->
        [id |-> rows[i].id, type |-> rows[i].type, amount |-> rows[i].amount,
         timestamp |-> rows[i].timestamp]]

GetRecentTransactions(account_id, limit) ==
    Columns(Limit(OrderByTimestampDesc(RowsOf(WithIds(transactions), account_id)),
                  limit))

\* Limits a caller of get_recent_transactions may name.
LimitArgs == 0..MaxLimit

\* A caller of the operation library runs get_recent_transactions, which
\* hands its arguments to the store.
OpsGetRecentTransactions(p) ==
    /\ proc[p].pc = "idle"
    /\ \E account_id \in AccountArgs, limit \in LimitArgs :
         proc' = [proc EXCEPT ![p] = [Idle EXCEPT
                     !.entry = "ops", !.op = "get_recent_transactions",
                     !.arg = [account_id |-> account_id, limit |-> limit],
                     !.out = GetRecentTransactions(account_id, limit)]]
    /\ UNCHANGED <<users, accounts, transactions, now, setups, calls>>

\* BankingDatabase.get_transaction_summary: per type, the total and the count
\* of the account's rows at or after now - days (the clock counts days).
RECURSIVE SumAmounts(_)
SumAmounts(rows) == IF rows = <<>> THEN 0 ELSE Head(rows).amount + SumAmounts(Tail(rows))

RECURSIVE RowsSince(_, _, _)
RowsSince(rows, type, threshold) ==
    IF rows = <<>> THEN <<>>
    ELSE IF Head(rows).type = type /\ Head(rows).timestamp >= threshold
         THEN <<Head(rows)>> \o RowsSince(Tail(rows), type, threshold)
         ELSE RowsSince(Tail(rows), type, threshold)

GetTransactionSummary(account_id, days) ==
    LET rows == RowsOf(transactions, account_id)
        types == {ty \in {"debit", "credit"} : RowsSince(rows, ty, now - days) # <<>>}
    IN [ty \in types |-> [total |-> SumAmounts(RowsSince(rows, ty, now - days)),
                          count |-> Len(RowsSince(rows, ty, now - days))]]

\* ------------------------------------------------- Executor._execute_tool
CanonicalTools == {"get_balance", "transfer_money", "get_transactions",
                   "simulate_transaction", "get_insights"}

tool_mapping ==
    [get_balance |-> "get_balance",
     account_balance_check |-> "get_balance",
     check_balance |-> "get_balance",
     balance_check |-> "get_balance",
     transfer_money |-> "transfer_money",
     transfer_funds |-> "transfer_money",
     transfer |-> "transfer_money",
     get_transactions |-> "get_transactions",
     fetch_transactions |-> "get_transactions",
     recent_transactions |-> "get_transactions",
     simulate_transaction |-> "simulate_transaction",
     what_if |-> "simulate_transaction",
     affordability_check |-> "simulate_transaction",
     get_insights |-> "get_insights",
     spending_insights |-> "get_insights",
     insights |-> "get_insights"]

\* Tool names a plan may carry that the table does not: written in another
\* case, unknown, empty.
OtherToolNames == {"Balance_Check", "TRANSFER", "bogus", "BOGUS", ""}

\* str.lower() on the tool names above.
Lower(s) ==
    CASE s = "Balance_Check" -> "balance_check"
      [] s = "TRANSFER" -> "transfer"
      [] s = "BOGUS" -> "bogus"
      [] OTHER -> s

\* tool_name.lower() if isinstance(tool_name, str) else str(tool_name).lower()
LookupKey(tool_name) ==
    IF tool_name.t = "str" THEN Lower(tool_name.s) ELSE ToString(tool_name.n)

\* Variant: the synonym table is not consulted.
NormalizeTool_KeepsName(tool_name) == tool_name

\* tool_mapping.get(key, tool_name)
NormalizeTool(tool_name) ==
    LET key == LookupKey(tool_name) IN
    IF key \in DOMAIN tool_mapping THEN StrV(tool_mapping[key]) ELSE tool_name

Fail(error) == [success |-> FALSE, error |-> error]

\* An exception leaving a statement of the try block.
Raised(exception) == [raised |-> TRUE, error |-> Msg(exception, 0)]

IsRaised(r) == "raised" \in DOMAIN r

\* Variant: the except clause lets the exception through.
Catch_Propagates(r) == r

\* except Exception as e: return {"success": False, "error": str(e)}
Catch(r) == IF IsRaised(r) THEN Fail(r.error) ELSE r

UnknownTool(tool_name, normalized_tool) ==
    Fail([text |-> "Unknown tool", tool_name |-> tool_name,
          normalized |-> normalized_tool])

\* Executor._get_default_account_id: SELECT id FROM accounts LIMIT 1
DefaultAccountId == IF accounts = <<>> THEN None ELSE IntV(1)

\* Executor._parse_time_period
DefaultDays == 30

\* process_query: a confidence below 0.5 is too low, in hundredths
ConfidenceThreshold == 50

\* int(x) of a finite float: truncation towards zero.
Truncate(tenths) ==
    IF tenths >= 0 THEN tenths \div 10 ELSE 0 - ((0 - tenths) \div 10)

Digits == <<"0", "1", "2", "3", "4", "5", "6", "7", "8", "9">>

IsDigit(ch) == \E d \in 1..10 : Digits[d] = ch

DigitValue(ch) == (CHOOSE d \in 1..10 : Digits[d] = ch) - 1

\* int(match.group(1)) for the digits chars[from..to]
RECURSIVE DigitsToInt(_, _, _)
DigitsToInt(chars, from, to) ==
    IF to < from THEN 0
    ELSE 10 * DigitsToInt(chars, from, to - 1) + DigitValue(chars[to])

\* re.search(r'(\d+)', s): the first, longest run of digits, as [from, to];
\* from = 0 when there is none.
SearchDigits(chars) ==
    IF \A i \in 1..Len(chars) : ~IsDigit(chars[i]) THEN [from |-> 0, to |-> 0]
    ELSE LET from == CHOOSE i \in 1..Len(chars) :
                        IsDigit(chars[i]) /\ \A j \in 1..(i - 1) : ~IsDigit(chars[j])
             to == CHOOSE i \in from..Len(chars) :
                      /\ \A j \in from..i : IsDigit(chars[j])
                      /\ (i = Len(chars) \/ ~IsDigit(chars[i + 1]))
         IN [from |-> from, to |-> to]

\* int(float('inf')) raises OverflowError, int(float('nan')) ValueError.
IntOfFloat(time_period) ==
    CASE time_period.t = "float" -> IntV(Truncate(time_period.tenths))
      [] time_period.t = "inf" -> Raised("OverflowError")
      [] time_period.t = "nan" -> Raised("ValueError")

\* The value _parse_time_period returns, or the exception it raises.
ParseTimePeriod(time_period) ==
    IF time_period.t = "int" THEN IntV(time_period.n)
    ELSE IF time_period.t \in {"float", "inf", "nan"} THEN IntOfFloat(time_period)
    ELSE IF time_period.t = "text" /\ SearchDigits(time_period.chars).from # 0
    THEN LET m == SearchDigits(time_period.chars) IN
         IntV(DigitsToInt(time_period.chars, m.from, m.to))
    ELSE IntV(DefaultDays)

DefaultLimit == 10

\* The branches below take the parameters of the step (None when the step
\* carries no mapping: parameters.get raises AttributeError) and fault: the
\* storage layer raises in a store call of the branch.
\* The get_balance branch.
ToolGetBalance(parameters, fault) ==
    IF parameters = None THEN Raised("AttributeError") ELSE
    LET account_id == parameters.account_id IN
    IF ~Truthy(account_id) THEN Fail(Msg("account_id required", 0))
    ELSE IF fault THEN Raised("OperationalError")
    ELSE LET b == GetBalance(account_id.n) IN
         IF b.error # None
         THEN [success |-> FALSE, error |-> b.error, account_id |-> account_id.n]
         ELSE [success |-> TRUE, balance |-> b.balance.n,
               account_id |-> account_id.n]

\* The get_transactions branch.
ToolGetTransactions(parameters, fault) ==
    IF parameters = None THEN Raised("AttributeError") ELSE
    LET account_id == IF Truthy(parameters.account_id)
                      THEN parameters.account_id ELSE DefaultAccountId
        limit == IF parameters.limit = None THEN DefaultLimit
                 ELSE parameters.limit.n
    IN IF ~Truthy(account_id)
       THEN Fail(Msg("account_id required. Please specify an account", 1))
       ELSE IF fault THEN Raised("OperationalError")
       ELSE [success |-> TRUE,
             transactions |-> GetRecentTransactions(account_id.n, limit),
             account_id |-> account_id.n]

\* The simulate_transaction branch.
ToolSimulate(parameters, fault) ==
    IF parameters = None THEN Raised("AttributeError") ELSE
    IF ~(Truthy(parameters.account_id) /\ Truthy(parameters.amount))
    THEN Fail(Msg("Missing required parameters", 0))
    ELSE IF fault THEN Raised("OperationalError")
    ELSE IF parameters.amount.t # "int" THEN Raised("TypeError")
    ELSE LET r == SimulateTransaction(parameters.account_id.n, parameters.amount.n)
         IN [k \in DOMAIN r \cup {"success"} |->
                IF k = "success" THEN TRUE ELSE r[k]]

\* The get_insights branch.
ToolGetInsights(parameters, fault) ==
    IF parameters = None THEN Raised("AttributeError") ELSE
    LET account_id == IF Truthy(parameters.account_id)
                      THEN parameters.account_id ELSE DefaultAccountId
        time_period == IF parameters.time_period = None THEN IntV(DefaultDays)
                       ELSE parameters.time_period
    IN IF ~Truthy(account_id)
       THEN Fail(Msg("account_id required. Please specify an account", 7))
       ELSE LET days == ParseTimePeriod(time_period) IN
            IF IsRaised(days) THEN days
            ELSE IF fault THEN Raised("OperationalError")
            ELSE [success |-> TRUE,
                  summary |-> GetTransactionSummary(account_id.n, days.n),
                  account_id |-> account_id.n]

\* The arguments of the transfer_money branch.
TransferFrom(parameters) == PyOr(parameters.account_id, parameters.from_account)

TransferTo(parameters) == PyOr(parameters.recipient_account, parameters.to_account)

\* Tool names and parameters _execute_tool may be called with.
ToolNameArgs ==
    {StrV(n) : n \in DOMAIN tool_mapping \cup OtherToolNames} \cup {None, IntV(5)}

FullParameters ==
    [NoParameters EXCEPT !.account_id = IntV(1), !.recipient_account = IntV(2),
                         !.amount = IntV(100)]

ParameterArgs ==
    {[NoParameters EXCEPT !.account_id = a, !.recipient_account = IntV(2),
                          !.amount = m] :
        a \in {None, IntV(1), IntV(3)}, m \in {None, IntV(100)}}
    \cup {[NoParameters EXCEPT !.account_id = IntV(1), !.amount = IntV(0)],
          [NoParameters EXCEPT !.account_id = IntV(1), !.amount = IntV(10000)],
          [NoParameters EXCEPT !.from_account = IntV(2), !.to_account = IntV(1),
                               !.amount = IntV(Account2Balance)],
          [NoParameters EXCEPT !.account_id = IntV(1), !.recipient_account = IntV(2),
                               !.amount = StrV("abc")],
          None}

\* Every tool name with full parameters, and every canonical tool with each
\* of the parameter mappings.
ToolCallArgs ==
    {<<n, FullParameters>> : n \in ToolNameArgs}
    \cup {<<StrV(n), ps>> : n \in CanonicalTools, ps \in ParameterArgs}

\* _execute_tool is called with a tool name and parameters: by execute_plan
\* for a step that names a tool, or by any other caller of the method.
ExecuteToolCall(p) ==
    /\ proc[p].pc = "idle"
    /\ calls < MaxCalls
    /\ calls' = calls + 1
    /\ \E a \in ToolCallArgs :
         proc' = [proc EXCEPT ![p] = [Idle EXCEPT !.pc = "execute_tool",
                                                  !.entry = "tool",
                                                  !.op = "execute_tool",
                                                  !.tool_name = a[1],
                                                  !.parameters = a[2]]]
    /\ UNCHANGED <<users, accounts, transactions, now, setups>>

\* ---------------------------------------------------- Executor.execute_plan
\* A step of a plan; parameters is None when the step carries no mapping.
Step(step_id, action, tool, parameters) ==
    [step_id |-> step_id, action |-> action, tool |-> tool,
     parameters |-> parameters]

\* f"step_{step_id}"
StepKey(step_id) == "step_" \o ToString(step_id)

\* all_results[key] = value
Put(all_results, key, value) ==
    [k \in DOMAIN all_results \cup {key} |->
        IF k = key THEN value ELSE all_results[k]]

\* Variant: a key an earlier step set is kept.
Update_KeepsFirst(all_results, result) ==
    [k \in DOMAIN all_results \cup DOMAIN result |->
        IF k \in DOMAIN all_results THEN all_results[k] ELSE result[k]]

\* all_results.update(result)
Update(all_results, result) ==
    [k \in DOMAIN all_results \cup DOMAIN result |->
        IF k \in DOMAIN result THEN result[k] ELSE all_results[k]]

\* The step the loop is at.
CurrentStep(c) == c.plan.steps[c.step + 1]

\* Variant: a failed step ends the loop.
NextStep_StopsOnFailure(c, result) ==
    IF result.success THEN c.step + 1 ELSE Len(c.plan.steps)

\* The loop goes on to the step after the current one, whatever its result.
NextStep(c, result) == c.step + 1

\* _execute_tool returns result to its caller; caught: the except clause ran.
\* An exception the except clause does not turn into a result leaves
\* _execute_tool and its callers: the process is at "raised".
\* Back in execute_plan the result is recorded under the step's key and
\* merged into all_results (step_results keeps every step's own result, in
\* the order the steps ran).
ToolReturn(c, normalized_tool, outcome) ==
    LET result == Catch(outcome)
        r == [c EXCEPT !.normalized_tool = normalized_tool,
                       !.from_account_id = 0, !.to_account_id = 0, !.amount = 0,
                       !.result = result, !.caught = IsRaised(outcome)]
    IN IF IsRaised(result)
       THEN [r EXCEPT !.pc = "raised"]
       ELSE IF c.caller = "plan"
       THEN [r EXCEPT !.pc = "plan_loop",
                      !.all_results =
                          Update(Put(c.all_results,
                                     StepKey(CurrentStep(c).step_id), result),
                                 result),
                      !.step_results = Append(c.step_results,
                          [step |-> c.step + 1, result |-> result,
                           merged |-> TRUE]),
                      !.step = NextStep(c, result)]
       ELSE [r EXCEPT !.pc = "idle"]

\* _execute_tool up to the return of a branch that only reads, or to the
\* call of transfer_money.
ExecuteTool(p) ==
    /\ proc[p].pc = "execute_tool"
    /\ \E fault \in BOOLEAN :
       LET c == proc[p]
           ps == c.parameters
           normalized_tool == NormalizeTool(c.tool_name) IN
         proc' = [proc EXCEPT ![p] =
            IF c.tool_name = None
            THEN ToolReturn(c, None, Fail(Msg("Tool name is missing", 0)))
            ELSE IF normalized_tool = StrV("get_balance")
            THEN ToolReturn(c, normalized_tool, ToolGetBalance(ps, fault))
            ELSE IF normalized_tool = StrV("transfer_money")
            THEN IF ps = None
                 THEN ToolReturn(c, normalized_tool, Raised("AttributeError"))
                 ELSE IF ~(Truthy(TransferFrom(ps)) /\ Truthy(TransferTo(ps))
                           /\ Truthy(ps.amount))
                 THEN ToolReturn(c, normalized_tool,
                                 Fail(Msg("Missing required parameters", 0)))
                 ELSE IF ps.amount.t # "int"
                 THEN ToolReturn(c, normalized_tool, Raised("TypeError"))
                 ELSE [c EXCEPT !.pc = "ops_transfer",
                                !.normalized_tool = normalized_tool,
                                !.from_account_id = TransferFrom(ps).n,
                                !.to_account_id = TransferTo(ps).n,
                                !.amount = ps.amount.n]
            ELSE IF normalized_tool = StrV("get_transactions")
            THEN ToolReturn(c, normalized_tool, ToolGetTransactions(ps, fault))
            ELSE IF normalized_tool = StrV("simulate_transaction")
            THEN ToolReturn(c, normalized_tool, ToolSimulate(ps, fault))
            ELSE IF normalized_tool = StrV("get_insights")
            THEN ToolReturn(c, normalized_tool, ToolGetInsights(ps, fault))
            ELSE ToolReturn(c, normalized_tool,
                            UnknownTool(c.tool_name, normalized_tool))]
    /\ UNCHANGED <<users, accounts, transactions, now, setups, calls>>

\* The transfer_money branch after the operation library returned.
ToolTransferDone(p) ==
    /\ proc[p].pc = "tool_transfer_done"
    /\ \E fault \in BOOLEAN :
       LET c == proc[p] IN
         proc' = [proc EXCEPT ![p] =
            ToolReturn(c, c.normalized_tool,
               IF c.ret.success
               THEN IF fault THEN Raised("OperationalError")
                    ELSE [success |-> TRUE, amount |-> c.amount,
                          from_account |-> c.from_account_id,
                          to_account |-> c.to_account_id,
                          new_balance |-> GetBalance(c.from_account_id).balance,
                          message |-> c.ret.message]
               ELSE Fail(c.ret.message))]
    /\ UNCHANGED <<users, accounts, transactions, now, setups, calls>>

\* Plans execute_plan may be given: three transfers of which the second is
\* refused; reads whose results share keys; a failed transfer before a read;
\* a step without a tool name; an unknown tool, parameters of the wrong type
\* and a step without parameters; step ids that are not positions; no step.
PlanArgs ==
    LET transfer(i, f, t, a) ==
            Step(i, "transfer", StrV("transfer_money"),
                 [NoParameters EXCEPT !.account_id = IntV(f),
                                      !.recipient_account = IntV(t),
                                      !.amount = a])
        balance(i, a) ==
            Step(i, "check_balance", StrV("balance_check"),
                 [NoParameters EXCEPT !.account_id = a])
        simulate(i, a, m) ==
            Step(i, "what_if", StrV("what_if"),
                 [NoParameters EXCEPT !.account_id = IntV(a), !.amount = IntV(m)])
    IN {[steps |-> st, requires_validation |-> v] :
          st \in {<<transfer(1, 1, 2, IntV(100)),
                    transfer(2, 1, 2, IntV(TransferLimit)),
                    transfer(3, 2, 1, IntV(100))>>,
                  <<balance(1, IntV(2)), simulate(2, 1, 10000)>>,
                  <<transfer(1, 1, 2, IntV(TransferLimit)), balance(2, IntV(1))>>,
                  <<Step(1, "check_balance", None, NoParameters),
                    Step(2, "transactions", StrV("get_transactions"), NoParameters)>>,
                  <<Step(1, "other", StrV("bogus"), NoParameters),
                    transfer(2, 1, 2, StrV("abc")),
                    Step(3, "insights", StrV("insights"), None)>>,
                  <<simulate(7, 2, Account2Balance), balance(3, None)>>,
                  <<>>},
          v \in {FALSE}}

\* A caller runs execute_plan on a plan.
ExecutePlanCall(p) ==
    /\ proc[p].pc = "idle"
    /\ calls < MaxPlans
    /\ calls' = calls + 1
    /\ \E plan \in PlanArgs :
         proc' = [proc EXCEPT ![p] = [Idle EXCEPT !.pc = "plan_loop",
                                                  !.op = "execute_plan",
                                                  !.plan = plan]]
    /\ UNCHANGED <<users, accounts, transactions, now, setups>>

\* execute_plan after the last step: return all_results.
PlanReturn(c) ==
    [c EXCEPT !.pc = IF c.pipeline THEN "validate" ELSE "idle"]

\* The head of the loop of execute_plan: the next step, if any, is recorded
\* as a failure when it names no tool and is handed to _execute_tool
\* otherwise.
PlanLoop(p) ==
    /\ proc[p].pc = "plan_loop"
    /\ LET c == proc[p] IN
         proc' = [proc EXCEPT ![p] =
            IF c.step >= Len(c.plan.steps) THEN PlanReturn(c)
            ELSE LET step == CurrentStep(c)
                     missing == Fail(Msg("Tool name is missing from plan step", 0))
                 IN IF ~Truthy(step.tool)
                    THEN [c EXCEPT !.all_results =
                                      Put(c.all_results, StepKey(step.step_id), missing),
                                   !.step_results = Append(c.step_results,
                                      [step |-> c.step + 1, result |-> missing,
                                       merged |-> FALSE]),
                                   !.step = c.step + 1]
                    ELSE [c EXCEPT !.pc = "execute_tool", !.entry = "tool",
                                   !.caller = "plan",
                                   !.tool_name = step.tool,
                                   !.parameters = step.parameters]]
    /\ UNCHANGED <<users, accounts, transactions, now, setups, calls>>

\* ------------------------------------------------------------ Planner
intent_to_tool ==
    [check_balance |-> "get_balance",
     transfer |-> "transfer_money",
     transactions |-> "get_transactions",
     what_if |-> "simulate_transaction",
     insights |-> "get_insights"]

\* dict.get(key, default)
Get(d, key, default) == IF key \in DOMAIN d THEN d[key] ELSE default

\* Variant: the client's current model is not tried.
ModelsToTry_FallbacksOnly(model) == GROQ_FALLBACK_MODELS

\* models_to_try = [self.model] + config.GROQ_FALLBACK_MODELS
ModelsToTry(model) == <<model>> \o GROQ_FALLBACK_MODELS

\* Variant: validation is required for a transfer only.
FallbackRequiresValidation_TransferOnly(intent) == intent = "transfer"

\* intent in ["transfer", "what_if"]
FallbackRequiresValidation(intent) == intent \in {"transfer", "what_if"}

\* Planner._fallback_plan
FallbackPlan(intent, entities) ==
    [steps |-> <<Step(1, intent,
                      StrV(IF intent \in DOMAIN intent_to_tool
                           THEN intent_to_tool[intent] ELSE "unknown"),
                      entities)>>,
     requires_validation |-> FallbackRequiresValidation(intent)]

\* Variant: the tool of the intent is preferred to that of the step's action.
InferTool_IntentFirst(step, intent) ==
    LET action == Get(step, "action", intent) IN
    IF intent \in DOMAIN intent_to_tool THEN intent_to_tool[intent]
    ELSE IF action \in DOMAIN intent_to_tool THEN intent_to_tool[action]
    ELSE "get_balance"

\* The tool a step without a tool name gets: that of its action, else that
\* of the intent, else get_balance.
InferTool(step, intent) ==
    LET action == Get(step, "action", intent) IN
    IF action \in DOMAIN intent_to_tool THEN intent_to_tool[action]
    ELSE IF intent \in DOMAIN intent_to_tool THEN intent_to_tool[intent]
    ELSE "get_balance"

FixStep(step, intent) ==
    IF Truthy(Get(step, "tool", None)) THEN step
    ELSE Put(step, "tool", StrV(InferTool(step, intent)))

\* Planner._validate_and_fix_plan
ValidateAndFixPlan(plan, intent, entities) ==
    LET steps == Get(plan, "steps", <<>>) IN
    IF steps = <<>> THEN FallbackPlan(intent, entities)
    ELSE Put(plan, "steps", [i \in 1..Len(steps) |-> FixStep(steps[i], intent)])

\* ------------------------------------------------------ Validator.validate
\* The pair (is_valid, message) validate returns.
Verdict(is_valid, message) == [is_valid |-> is_valid, message |-> message]

ValidateTransfer(result) ==
    IF Get(result, "success", FALSE)
    THEN Verdict(TRUE, Msg("Transfer validated successfully",
                           Get(result, "amount", 0)))
    ELSE Verdict(FALSE, Get(result, "error", Msg("Transfer validation failed", 0)))

ValidateSimulation(result) ==
    IF Get(result, "affordable", FALSE)
    THEN Verdict(TRUE, Msg("Simulation shows transaction is affordable", 0))
    ELSE Verdict(FALSE, Msg("Simulation shows transaction is not affordable", 0))

\* Variant: a balance of zero is rejected.
ValidateBalance_Positive(result) ==
    IF "balance" \in DOMAIN result /\ result.balance > 0
    THEN Verdict(TRUE, Msg("Balance check valid", 0))
    ELSE Verdict(FALSE, Msg("Invalid balance result", 0))

ValidateBalance(result) ==
    IF "balance" \in DOMAIN result /\ result.balance >= 0
    THEN Verdict(TRUE, Msg("Balance check valid", 0))
    ELSE Verdict(FALSE, Msg("Invalid balance result", 0))

Validate(step_result, step_plan) ==
    LET action == Get(step_plan, "action", "") IN
    IF ~Get(step_result, "success", FALSE)
    THEN Verdict(FALSE, Get(step_result, "error", Msg("Execution failed", 0)))
    ELSE IF action = "transfer" THEN ValidateTransfer(step_result)
    ELSE IF action = "what_if" THEN ValidateSimulation(step_result)
    ELSE IF action = "check_balance" THEN ValidateBalance(step_result)
    ELSE Verdict(TRUE, Msg("Validation passed", 0))

\* ------------------------------------------------------ Responder.respond
\* A reply: its fixed text and the values formatted into it.
Reply(text, args) == [text |-> text, args |-> args]

\* "not found" in error.lower()
SaysNotFound(error) ==
    error.text \in {"Account not found", "Source account not found",
                    "Destination account not found"}

FormatBalanceResponse(results) ==
    IF "error" \in DOMAIN results
    THEN IF SaysNotFound(results.error)
         THEN Reply("Account not found. Please run 'setup' to create demo accounts first.",
                    <<Get(results, "account_id", "N/A")>>)
         ELSE Reply("Error", <<results.error>>)
    ELSE IF "balance" \in DOMAIN results
    THEN Reply("Your account balance is",
               <<Get(results, "account_id", "N/A"), results.balance>>)
    ELSE Reply("Unable to retrieve balance.", <<>>)

FormatTransferResponse(results) ==
    IF Get(results, "success", FALSE)
    THEN Reply("Transfer successful!",
               <<Get(results, "amount", 0), Get(results, "from_account", None),
                 Get(results, "to_account", None), Get(results, "new_balance", None)>>)
    ELSE Reply("Transfer failed", <<Get(results, "error", Msg("Unknown error", 0))>>)

FormatTransactionsResponse(results) ==
    IF Get(results, "transactions", <<>>) = <<>>
    THEN Reply("No recent transactions found.", <<>>)
    ELSE Reply("Recent transactions", <<results.transactions>>)

FormatSimulationResponse(results) ==
    Reply(IF Get(results, "affordable", FALSE)
          THEN "This transaction is affordable!"
          ELSE "This transaction would result in insufficient funds.",
          <<Get(results, "current_balance", 0), Get(results, "amount", 0),
            Get(results, "projected_balance", 0)>>)

FormatInsightsResponse(results) ==
    IF Get(results, "summary", <<>>) = <<>>
    THEN Reply("No insights available for this account.", <<>>)
    ELSE Reply("Spending Insights", <<results.summary>>)

FormatGenericResponse(results) ==
    IF Get(results, "success", FALSE)
    THEN Reply("Operation completed successfully.", <<>>)
    ELSE Reply("Operation failed", <<Get(results, "error", Msg("Unknown error", 0))>>)

Respond(execution_results, intent) ==
    CASE intent = "check_balance" -> FormatBalanceResponse(execution_results)
      [] intent = "transfer" -> FormatTransferResponse(execution_results)
      [] intent = "transactions" -> FormatTransactionsResponse(execution_results)
      [] intent = "what_if" -> FormatSimulationResponse(execution_results)
      [] intent = "insights" -> FormatInsightsResponse(execution_results)
      [] OTHER -> FormatGenericResponse(execution_results)

\* -------------------------------------------------- IntentParser.parse
\* What a chat completion gives: an API error, a content that is no JSON,
\* or a JSON object.
Completions(objects) ==
    {[kind |-> "error"], [kind |-> "bad_json"]}
    \cup {[kind |-> "json", value |-> o] : o \in objects}

\* Variant: the result of parse after the last failure is a confident guess.
Degraded_Confident ==
    [intent |-> "check_balance", entities |-> NoParameters, confidence |-> IntV(100)]

\* The result of parse when every model failed.
Degraded == [intent |-> "unknown", entities |-> NoParameters, confidence |-> IntV(0)]

\* Entities the classifier extracts.
TransferEntities(amount) ==
    [NoParameters EXCEPT !.account_id = IntV(1), !.recipient_account = IntV(2),
                         !.amount = IntV(amount)]

AccountEntities == [NoParameters EXCEPT !.account_id = IntV(1)]

\* JSON objects the classifier returns; confidence in hundredths.
ParsedArgs ==
    {[intent |-> "transfer", entities |-> TransferEntities(100), confidence |-> IntV(90)],
     [intent |-> "transfer", entities |-> TransferEntities(TransferLimit),
      confidence |-> IntV(49)],
     [intent |-> "check_balance", entities |-> AccountEntities,
      confidence |-> IntV(ConfidenceThreshold)],
     [intent |-> "what_if", entities |-> TransferEntities(TransferLimit),
      confidence |-> IntV(100)],
     [intent |-> "transfer", entities |-> TransferEntities(100)],
     [intent |-> "payment", entities |-> TransferEntities(TransferLimit),
      confidence |-> IntV(80)],
     [intent |-> "insights", entities |-> NoParameters, confidence |-> IntV(70)],
     [confidence |-> IntV(95)],
     [intent |-> "transactions", entities |-> AccountEntities, confidence |-> None]}

\* ------------------------------------------------ BankingAgent.process_query
RephraseReply ==
    Reply("I'm not sure I understand. Could you rephrase your banking query?", <<>>)

\* Variant: only a confidence of zero is low.
LowConfidence_ZeroOnly(confidence) == confidence.n = 0

\* parsed.get("confidence", 0) < 0.5
LowConfidence(confidence) == confidence.n < ConfidenceThreshold

\* A query arrives; the clients keep the models earlier queries switched to.
ProcessQueryCall(p) ==
    /\ proc[p].pc = "idle"
    /\ calls < MaxQueries
    /\ calls' = calls + 1
    /\ proc' = [proc EXCEPT ![p] = [Fresh(proc[p]) EXCEPT
                    !.pc = "parse", !.op = "process_query", !.pipeline = TRUE,
                    !.attempt = 1]]
    /\ UNCHANGED <<users, accounts, transactions, now, setups>>

\* Where parse returns to: process_query, or another caller.
ParseReturn(c) == IF c.pipeline THEN "confidence" ELSE "idle"

\* One attempt of the loop of parse, with the model models_to_try[attempt];
\* tried holds the models the call has tried so far.
ParseAttempt(p) ==
    /\ proc[p].pc = "parse"
    /\ \E completion \in Completions(ParsedArgs) :
       LET c == proc[p]
           models_to_try == ModelsToTry(c.parser_model)
       IN proc' = [proc EXCEPT ![p] =
            IF completion.kind = "json"
            THEN [c EXCEPT !.pc = ParseReturn(c),
                           !.tried = Append(c.tried, models_to_try[c.attempt]),
                           !.parser_model = models_to_try[c.attempt],
                           !.parsed = completion.value]
            ELSE IF c.attempt < Len(models_to_try)
            THEN [c EXCEPT !.attempt = c.attempt + 1,
                           !.tried = Append(c.tried, models_to_try[c.attempt]),
                           !.parse_failures = c.parse_failures + 1]
            ELSE [c EXCEPT !.pc = ParseReturn(c),
                           !.tried = Append(c.tried, models_to_try[c.attempt]),
                           !.parse_failures = c.parse_failures + 1,
                           !.parsed = Degraded]]
    /\ UNCHANGED <<users, accounts, transactions, now, setups, calls>>

\* process_query after parse returned: intent, entities and the test of
\* the confidence.  Comparing None with 0.5 raises TypeError.
ConfidenceCheck(p) ==
    /\ proc[p].pc = "confidence"
    /\ LET c == proc[p]
           confidence == Get(c.parsed, "confidence", IntV(0))
           r == [c EXCEPT !.intent = Get(c.parsed, "intent", "unknown"),
                          !.entities = Get(c.parsed, "entities", NoParameters)]
       IN proc' = [proc EXCEPT ![p] =
            IF confidence = None THEN [r EXCEPT !.pc = "raised"]
            ELSE IF LowConfidence(confidence)
            THEN [r EXCEPT !.pc = "idle", !.reply = RephraseReply]
            ELSE [r EXCEPT !.pc = "plan", !.attempt = 1, !.tried = <<>>]]
    /\ UNCHANGED <<users, accounts, transactions, now, setups, calls>>

\* JSON objects the planning completion returns for an intent and entities.
LlmPlanArgs(intent, entities) ==
    LET tool == IF intent \in DOMAIN intent_to_tool
                THEN intent_to_tool[intent] ELSE "get_balance"
        balance == Step(2, "check_balance", StrV("get_balance"), entities)
        simulate == Step(1, "what_if", StrV("simulate_transaction"), entities)
    IN {[steps |-> <<>>, requires_validation |-> TRUE],
        [requires_validation |-> FALSE],
        [steps |-> <<Step(1, intent, StrV(tool), entities)>>,
         requires_validation |-> TRUE],
        [steps |-> <<Step(1, intent, StrV(tool), entities), balance>>,
         requires_validation |-> TRUE],
        [steps |-> <<simulate>>, requires_validation |-> TRUE],
        [steps |-> <<[step_id |-> 1, action |-> intent, parameters |-> entities],
                     Step(2, "other", None, entities)>>],
        [steps |-> <<Step(1, "check_balance", StrV(""), entities)>>,
         requires_validation |-> FALSE]}

\* Where plan returns to: process_query, which goes on to execute_plan, or
\* another caller.
PlanCallReturn(c) == IF c.pipeline THEN "plan_loop" ELSE "idle"

\* One attempt of the loop of plan.
PlanAttempt(p) ==
    /\ proc[p].pc = "plan"
    /\ \E completion \in Completions(LlmPlanArgs(proc[p].intent, proc[p].entities)) :
       LET c == proc[p]
           models_to_try == ModelsToTry(c.planner_model)
       IN proc' = [proc EXCEPT ![p] =
            IF completion.kind = "json"
            THEN [c EXCEPT !.pc = PlanCallReturn(c),
                           !.tried = Append(c.tried, models_to_try[c.attempt]),
                           !.planner_model = models_to_try[c.attempt],
                           !.llm_plan = completion.value,
                           !.plan = ValidateAndFixPlan(completion.value,
                                                       c.intent, c.entities)]
            ELSE IF c.attempt < Len(models_to_try)
            THEN [c EXCEPT !.attempt = c.attempt + 1,
                           !.tried = Append(c.tried, models_to_try[c.attempt]),
                           !.plan_failures = c.plan_failures + 1]
            ELSE [c EXCEPT !.pc = PlanCallReturn(c),
                           !.tried = Append(c.tried, models_to_try[c.attempt]),
                           !.plan_failures = c.plan_failures + 1,
                           !.plan = FallbackPlan(c.intent, c.entities)]]
    /\ UNCHANGED <<users, accounts, transactions, now, setups, calls>>

\* Variant: the message of the first step that failed validation is kept.
RecordValidation_KeepsFirst(execution_results, verdict) ==
    IF verdict.is_valid \/ "validation_error" \in DOMAIN execution_results
    THEN execution_results
    ELSE Put(execution_results, "validation_error", verdict.message)

\* if not is_valid: execution_results["validation_error"] = message
RecordValidation(execution_results, verdict) ==
    IF verdict.is_valid THEN execution_results
    ELSE Put(execution_results, "validation_error", verdict.message)

\* One round of the validation loop, or the end of it.
ValidateStep(p) ==
    /\ proc[p].pc = "validate"
    /\ LET c == proc[p]
           steps == Get(c.plan, "steps", <<>>)
       IN proc' = [proc EXCEPT ![p] =
            IF ~Get(c.plan, "requires_validation", FALSE) \/ c.validated >= Len(steps)
            THEN [c EXCEPT !.pc = "respond"]
            ELSE LET step == steps[c.validated + 1]
                     step_result == Get(c.all_results, StepKey(step.step_id), <<>>)
                     verdict == Validate(step_result, step)
                 IN [c EXCEPT !.validated = c.validated + 1,
                              !.all_results =
                                  RecordValidation(c.all_results, verdict)]]
    /\ UNCHANGED <<users, accounts, transactions, now, setups, calls>>

\* responder.respond(execution_results, intent) and the return of the reply.
RespondStep(p) ==
    /\ proc[p].pc = "respond"
    /\ proc' = [proc EXCEPT ![p] =
            [proc[p] EXCEPT !.pc = "idle",
                            !.reply = Respond(proc[p].all_results, proc[p].intent)]]
    /\ UNCHANGED <<users, accounts, transactions, now, setups, calls>>

\* ------------------------------------------ calls of parse and of plan
\* A caller runs parse on the classifier's client.
ParseCall(p) ==
    /\ proc[p].pc = "idle"
    /\ calls < MaxModelCalls
    /\ calls' = calls + 1
    /\ proc' = [proc EXCEPT ![p] = [Fresh(proc[p]) EXCEPT
                    !.pc = "parse", !.op = "parse", !.attempt = 1]]
    /\ UNCHANGED <<users, accounts, transactions, now, setups>>

\* A caller runs plan on the planner's client.
PlanCall(p) ==
    /\ proc[p].pc = "idle"
    /\ calls < MaxModelCalls
    /\ calls' = calls + 1
    /\ \E intent \in {"transfer", "payment"} :
         proc' = [proc EXCEPT ![p] = [Fresh(proc[p]) EXCEPT
                     !.pc = "plan", !.op = "plan", !.attempt = 1,
                     !.intent = intent, !.entities = TransferEntities(100)]]
    /\ UNCHANGED <<users, accounts, transactions, now, setups>>

\* ---------------------------------------------------------------- main
\* A line typed at the prompt: its text in lower case, whether it was typed
\* in upper case, and whether blanks surround it.
Input(text, upper, padded) ==
    [t |-> "line", text |-> text, upper |-> upper, padded |-> padded]

\* str.strip()
Strip(line) == [line EXCEPT !.padded = FALSE]

\* Variant: the case of the line is kept.
LowerInput_KeepsCase(line) == line

\* str.lower()
LowerInput(line) == [line EXCEPT !.upper = FALSE]

\* What the loop does with a line: "continue" without doing anything,
\* "break", "setup", or "query".
Dispatch(line) ==
    LET user_input == Strip(line) IN
    IF user_input.text = "" THEN "continue"
    ELSE IF \E w \in {"quit", "exit", "q"} : LowerInput(user_input) = Input(w, FALSE, FALSE)
    THEN "break"
    ELSE IF LowerInput(user_input) = Input("setup", FALSE, FALSE) THEN "setup"
    ELSE "query"

\* Lines the user types.
InputArgs ==
    {Input("", FALSE, FALSE), Input("", FALSE, TRUE),
     Input("quit", FALSE, FALSE), Input("exit", FALSE, FALSE),
     Input("q", FALSE, FALSE), Input("quit", TRUE, TRUE), Input("q", TRUE, FALSE),
     Input("setup", FALSE, FALSE), Input("setup", TRUE, TRUE),
     Input("check my balance", FALSE, FALSE), Input("quit please", TRUE, TRUE)}

KeyboardInterrupt == [t |-> "KeyboardInterrupt"]

\* input() returned a line that is empty once stripped: continue.
MainEmpty(p) ==
    /\ proc[p].pc = "idle"
    /\ \E line \in InputArgs :
         /\ Dispatch(line) = "continue"
         /\ proc' = [proc EXCEPT ![p] = [Fresh(proc[p]) EXCEPT
                        !.user_input = line]]
    /\ UNCHANGED <<users, accounts, transactions, now, setups, calls>>

\* quit, exit or q: break.
MainQuit(p) ==
    /\ proc[p].pc = "idle"
    /\ \E line \in InputArgs :
         /\ Dispatch(line) = "break"
         /\ proc' = [proc EXCEPT ![p] = [Idle EXCEPT !.pc = "exited",
                                                     !.user_input = line]]
    /\ UNCHANGED <<users, accounts, transactions, now, setups, calls>>

\* setup: agent.setup_demo_data(), then continue.
MainSetup(p) ==
    /\ proc[p].pc = "idle"
    /\ setups < MaxSetups
    /\ setups' = setups + 1
    /\ \E line \in InputArgs :
         /\ Dispatch(line) = "setup"
         /\ proc' = [proc EXCEPT ![p] = [Fresh(proc[p]) EXCEPT
                        !.pc = "create_user", !.user_input = line]]
    /\ UNCHANGED <<users, accounts, transactions, now, calls>>

\* Any other line: agent.process_query(user_input).
MainQuery(p) ==
    /\ proc[p].pc = "idle"
    /\ calls < MaxQueries
    /\ calls' = calls + 1
    /\ \E line \in InputArgs :
         /\ Dispatch(line) = "query"
         /\ proc' = [proc EXCEPT ![p] = [Fresh(proc[p]) EXCEPT
                        !.pc = "parse", !.op = "process_query", !.pipeline = TRUE,
                        !.attempt = 1, !.user_input = line]]
    /\ UNCHANGED <<users, accounts, transactions, now, setups>>

\* except KeyboardInterrupt: break.  The interrupt arrives at the prompt or
\* while an input is handled; writes not yet committed are dropped with the
\* connection.
MainInterrupt(p) ==
    /\ proc[p].pc # "exited"
    /\ proc' = [proc EXCEPT ![p] = [Idle EXCEPT !.pc = "exited",
                                                !.user_input = KeyboardInterrupt]]
    /\ UNCHANGED <<users, accounts, transactions, now, setups, calls>>

\* except Exception: the error is printed and the loop goes on.  The
\* exception left process_query, or input() raised EOFError at the prompt.
MainExcept(p) ==
    /\ \/ /\ proc[p].pc = "raised"
          /\ proc' = [proc EXCEPT ![p] = [proc[p] EXCEPT
                         !.pc = "idle", !.printed = Msg("Error", 0)]]
       \/ /\ proc[p].pc = "idle"
          /\ proc' = [proc EXCEPT ![p] = [Fresh(proc[p]) EXCEPT
                         !.printed = Msg("EOFError", 0)]]
    /\ UNCHANGED <<users, accounts, transactions, now, setups, calls>>

\* ------------------------------------------------- calls of pure functions
\* The time periods _parse_time_period is called with: integers, floats,
\* texts, None and a list.
TextArgs ==
    {<<>>,
     <<"1", "0", " ", "d", "a", "y", "s">>,
     <<"-", "5", " ", "d", "a", "y", "s">>,
     <<"l", "a", "s", "t", " ", "w", "e", "e", "k">>,
     <<"3", ".", "5">>,
     <<"0", "0", "7">>,
     <<"l", "a", "s", "t", " ", "7", " ", "o", "r", " ", "1", "4">>}

TimePeriodArgs ==
    {IntV(n) : n \in (0 - MaxDays)..MaxDays}
    \cup {FloatV(k) : k \in (0 - MaxTenths)..MaxTenths}
    \cup {TextV(chars) : chars \in TextArgs}
    \cup {Inf, NaN, None, ListV}

ParseTimePeriodCall(p) ==
    /\ proc[p].pc = "idle"
    /\ calls < MaxCalls
    /\ calls' = calls + 1
    /\ \E time_period \in TimePeriodArgs :
         proc' = [proc EXCEPT ![p] = [Idle EXCEPT
                     !.op = "parse_time_period",
                     !.arg = time_period,
                     !.out = ParseTimePeriod(time_period)]]
    /\ UNCHANGED <<users, accounts, transactions, now, setups>>

\* The step results validate is called with: results of every executor
\* branch, failures, and results without a success or an error field.
StepResultArgs ==
    {<<>>, [success |-> FALSE], [success |-> TRUE],
     [error |-> Msg("Account not found", 0)],
     [balance |-> Account1Balance, account_id |-> 1],
     Fail(Msg("Insufficient balance", 0)),
     [success |-> FALSE, affordable |-> TRUE, balance |-> Account1Balance],
     [success |-> TRUE, amount |-> 100, from_account |-> 1, to_account |-> 2,
      new_balance |-> IntV(Account1Balance - 100),
      message |-> Msg("Successfully transferred", 100)],
     [success |-> TRUE, transactions |-> <<>>, account_id |-> 1]}
    \cup {[success |-> TRUE, balance |-> b, account_id |-> 1] :
              b \in (0 - MaxTenths)..MaxTenths}
    \cup {[success |-> TRUE, affordable |-> a, current_balance |-> Account1Balance,
           projected_balance |-> Account1Balance - m, amount |-> m] :
              a \in BOOLEAN, m \in {100, 10000}}

StepPlanArgs ==
    {Step(1, action, StrV("get_balance"), NoParameters) :
        action \in DOMAIN intent_to_tool \cup {"unknown", ""}}
    \cup {[step_id |-> 1, tool |-> StrV("get_balance")]}

ValidateCall(p) ==
    /\ proc[p].pc = "idle"
    /\ calls < MaxCalls
    /\ calls' = calls + 1
    /\ \E step_result \in StepResultArgs, step_plan \in StepPlanArgs :
         proc' = [proc EXCEPT ![p] = [Idle EXCEPT
                     !.op = "validate",
                     !.arg = [step_result |-> step_result,
                              step_plan |-> step_plan],
                     !.out = Validate(step_result, step_plan)]]
    /\ UNCHANGED <<users, accounts, transactions, now, setups>>

\* ------------------------------------------------------- specifications
\* One process: setup, calls of the operation library and of the executor.
Next ==
    \/ Tick
    \/ \E p \in Procs : SetupCall(p)
    \/ \E p \in Procs : CreateUser(p)
    \/ \E p \in Procs : CreateAccount1(p)
    \/ \E p \in Procs : CreateAccount2(p)
    \/ \E p \in Procs : OpsTransferCall(p)
    \/ \E p \in Procs : OpsTransferGate(p)
    \/ \E p \in Procs : SelectFrom(p)
    \/ \E p \in Procs : SelectTo(p)
    \/ \E p \in Procs : UpdateFrom(p)
    \/ \E p \in Procs : UpdateTo(p)
    \/ \E p \in Procs : InsertDebit(p)
    \/ \E p \in Procs : InsertCredit(p)
    \/ \E p \in Procs : Commit(p)
    \/ \E p \in Procs : StoreException(p)
    \/ \E p \in Procs : OpsSimulate(p)
    \/ \E p \in Procs : ExecuteToolCall(p)
    \/ \E p \in Procs : ExecuteTool(p)
    \/ \E p \in Procs : ToolTransferDone(p)

Spec == Init /\ [][Next]_vars

\* Two processes calling transfer_money on one database file.
NextConcurrent ==
    \/ Tick
    \/ \E p \in Procs : SetupCall(p)
    \/ \E p \in Procs : CreateUser(p)
    \/ \E p \in Procs : CreateAccount1(p)
    \/ \E p \in Procs : CreateAccount2(p)
    \/ \E p \in Procs : OpsTransferCall(p)
    \/ \E p \in Procs : OpsTransferGate(p)
    \/ \E p \in Procs : SelectFrom(p)
    \/ \E p \in Procs : SelectTo(p)
    \/ \E p \in Procs : UpdateFrom(p)
    \/ \E p \in Procs : UpdateTo(p)
    \/ \E p \in Procs : InsertDebit(p)
    \/ \E p \in Procs : InsertCredit(p)
    \/ \E p \in Procs : Commit(p)
    \/ \E p \in Procs : StoreException(p)
    \/ \E p \in Procs : Busy(p)

SpecConcurrent == InitConcurrent /\ [][NextConcurrent]_vars

\* One process running plans through execute_plan.
NextPlan ==
    \/ Tick
    \/ \E p \in Procs : SetupCall(p)
    \/ \E p \in Procs : CreateUser(p)
    \/ \E p \in Procs : CreateAccount1(p)
    \/ \E p \in Procs : CreateAccount2(p)
    \/ \E p \in Procs : ExecutePlanCall(p)
    \/ \E p \in Procs : PlanLoop(p)
    \/ \E p \in Procs : ExecuteTool(p)
    \/ \E p \in Procs : ToolTransferDone(p)
    \/ \E p \in Procs : OpsTransferGate(p)
    \/ \E p \in Procs : SelectFrom(p)
    \/ \E p \in Procs : SelectTo(p)
    \/ \E p \in Procs : UpdateFrom(p)
    \/ \E p \in Procs : UpdateTo(p)
    \/ \E p \in Procs : InsertDebit(p)
    \/ \E p \in Procs : InsertCredit(p)
    \/ \E p \in Procs : Commit(p)
    \/ \E p \in Procs : StoreException(p)

SpecPlan == Init /\ [][NextPlan]_vars

\* One process transferring money and reading the log of an account.
NextReads ==
    \/ Tick
    \/ \E p \in Procs : SetupCall(p)
    \/ \E p \in Procs : CreateUser(p)
    \/ \E p \in Procs : CreateAccount1(p)
    \/ \E p \in Procs : CreateAccount2(p)
    \/ \E p \in Procs : OpsTransferCall(p)
    \/ \E p \in Procs : OpsTransferGate(p)
    \/ \E p \in Procs : SelectFrom(p)
    \/ \E p \in Procs : SelectTo(p)
    \/ \E p \in Procs : UpdateFrom(p)
    \/ \E p \in Procs : UpdateTo(p)
    \/ \E p \in Procs : InsertDebit(p)
    \/ \E p \in Procs : InsertCredit(p)
    \/ \E p \in Procs : Commit(p)
    \/ \E p \in Procs : StoreException(p)
    \/ \E p \in Procs : OpsGetRecentTransactions(p)

SpecReads == Init /\ [][NextReads]_vars

\* One process answering queries through process_query.
NextPipeline ==
    \/ \E p \in Procs : SetupCall(p)
    \/ \E p \in Procs : CreateUser(p)
    \/ \E p \in Procs : CreateAccount1(p)
    \/ \E p \in Procs : CreateAccount2(p)
    \/ \E p \in Procs : ProcessQueryCall(p)
    \/ \E p \in Procs : ParseAttempt(p)
    \/ \E p \in Procs : ConfidenceCheck(p)
    \/ \E p \in Procs : PlanAttempt(p)
    \/ \E p \in Procs : PlanLoop(p)
    \/ \E p \in Procs : ExecuteTool(p)
    \/ \E p \in Procs : ToolTransferDone(p)
    \/ \E p \in Procs : OpsTransferGate(p)
    \/ \E p \in Procs : SelectFrom(p)
    \/ \E p \in Procs : SelectTo(p)
    \/ \E p \in Procs : UpdateFrom(p)
    \/ \E p \in Procs : UpdateTo(p)
    \/ \E p \in Procs : InsertDebit(p)
    \/ \E p \in Procs : InsertCredit(p)
    \/ \E p \in Procs : Commit(p)
    \/ \E p \in Procs : StoreException(p)
    \/ \E p \in Procs : ValidateStep(p)
    \/ \E p \in Procs : RespondStep(p)

SpecPipeline == Init /\ [][NextPipeline]_vars

\* One process calling parse and plan.
NextModels ==
    \/ \E p \in Procs : ParseCall(p)
    \/ \E p \in Procs : ParseAttempt(p)
    \/ \E p \in Procs : PlanCall(p)
    \/ \E p \in Procs : PlanAttempt(p)

SpecModels == Init /\ [][NextModels]_vars

\* One process calling plan, and running execute_plan on plans of its own.
NextPlanner ==
    \/ Tick
    \/ \E p \in Procs : SetupCall(p)
    \/ \E p \in Procs : CreateUser(p)
    \/ \E p \in Procs : CreateAccount1(p)
    \/ \E p \in Procs : CreateAccount2(p)
    \/ \E p \in Procs : PlanCall(p)
    \/ \E p \in Procs : PlanAttempt(p)
    \/ \E p \in Procs : ExecutePlanCall(p)
    \/ \E p \in Procs : PlanLoop(p)
    \/ \E p \in Procs : ExecuteTool(p)
    \/ \E p \in Procs : ToolTransferDone(p)
    \/ \E p \in Procs : OpsTransferGate(p)
    \/ \E p \in Procs : SelectFrom(p)
    \/ \E p \in Procs : SelectTo(p)
    \/ \E p \in Procs : UpdateFrom(p)
    \/ \E p \in Procs : UpdateTo(p)
    \/ \E p \in Procs : InsertDebit(p)
    \/ \E p \in Procs : InsertCredit(p)
    \/ \E p \in Procs : Commit(p)
    \/ \E p \in Procs : StoreException(p)

SpecPlanner == Init /\ [][NextPlanner]_vars

\* The command loop of main: one process at its prompt.
NextMain ==
    \/ \E p \in Procs : MainEmpty(p)
    \/ \E p \in Procs : MainQuit(p)
    \/ \E p \in Procs : MainSetup(p)
    \/ \E p \in Procs : MainQuery(p)
    \/ \E p \in Procs : MainInterrupt(p)
    \/ \E p \in Procs : MainExcept(p)
    \/ \E p \in Procs : CreateUser(p)
    \/ \E p \in Procs : CreateAccount1(p)
    \/ \E p \in Procs : CreateAccount2(p)
    \/ \E p \in Procs : ParseAttempt(p)
    \/ \E p \in Procs : ConfidenceCheck(p)
    \/ \E p \in Procs : PlanAttempt(p)
    \/ \E p \in Procs : PlanLoop(p)
    \/ \E p \in Procs : ExecuteTool(p)
    \/ \E p \in Procs : ToolTransferDone(p)
    \/ \E p \in Procs : OpsTransferGate(p)
    \/ \E p \in Procs : SelectFrom(p)
    \/ \E p \in Procs : SelectTo(p)
    \/ \E p \in Procs : UpdateFrom(p)
    \/ \E p \in Procs : UpdateTo(p)
    \/ \E p \in Procs : InsertDebit(p)
    \/ \E p \in Procs : InsertCredit(p)
    \/ \E p \in Procs : Commit(p)
    \/ \E p \in Procs : StoreException(p)
    \/ \E p \in Procs : ValidateStep(p)
    \/ \E p \in Procs : RespondStep(p)

SpecMain == Init /\ [][NextMain]_vars

\* One process calling the pure functions of the executor and the validator.
NextPure ==
    \/ \E p \in Procs : ParseTimePeriodCall(p)
    \/ \E p \in Procs : ValidateCall(p)

SpecPure == Init /\ [][NextPure]_vars

\* ========================================================== properties
\* Process p took a step.
Stepped(p) == proc'[p] # proc[p]

\* Process p's call of transfer_money returned in this step.
Returned(p) ==
    /\ proc[p].pc \in StorePcs \cup {"ops_transfer"}
    /\ proc'[p].pc \in {"idle", "tool_transfer_done"}

StoreUnchanged == accounts' = accounts /\ transactions' = transactions

RowsOfType(type) == {i \in 1..Len(transactions) : transactions[i].type = type}

\* C1: a step that creates no account leaves the sum of all balances as it
\* was, whatever transfer attempt the step belongs to.
C1_SumOfBalancesKept ==
    [][Len(accounts') = Len(accounts)
          => SumBalances(accounts') = SumBalances(accounts)]_vars

\* C2: when a transfer commits, the balances it read of its source and of
\* its destination are still the stored ones: its check and its update act
\* as one read-modify-write, and no other transfer's update is overwritten.
C2_AtomicReadModifyWrite ==
    [][\A p \in Procs :
          (/\ proc[p].pc = "commit"
           /\ proc[p].from_account_id # proc[p].to_account_id
           /\ Returned(p)
           /\ proc'[p].ret.success)
             => /\ accounts[proc[p].from_account_id].balance = proc[p].from_account.n
                /\ accounts[proc[p].to_account_id].balance = proc[p].to_account.n]_vars

\* C3: no balance is ever negative, and a transfer whose amount exceeds the
\* balance of its source changes neither a balance nor the transaction log
\* and returns failure.
C3_NoNegativeOverdraft ==
    /\ [](\A a \in AccountIds : accounts[a].balance >= 0)
    /\ [][\A p \in Procs :
             (/\ proc[p].pc \in StorePcs
              /\ AccountExists(proc[p].from_account_id)
              /\ accounts[proc[p].from_account_id].balance < proc[p].amount
              /\ Stepped(p))
                => /\ StoreUnchanged
                   /\ proc'[p].pc \in {"select_to", "idle", "tool_transfer_done"}
                   /\ Returned(p) => ~proc'[p].ret.success]_vars

C3_Witness ==
    /\ proc[1].pc = "idle"
    /\ proc[1].ret = [success |-> FALSE,
                      message |-> Msg("Insufficient balance. Available",
                                      Account2Balance)]
    /\ accounts[2].balance = Account2Balance
    /\ transactions = <<>>

\* C4: the transaction log grows only when a transfer returns success, and
\* then by exactly a debit row on the source and a credit row on the
\* destination, both with the amount and one timestamp; a transfer that
\* returns failure appends nothing; debit and credit rows are equally many.
C4_DebitCreditPairing ==
    /\ [](Cardinality(RowsOfType("debit")) = Cardinality(RowsOfType("credit")))
    /\ [][\A p \in Procs :
             Returned(p) =>
                IF proc'[p].ret.success
                THEN LET c == proc[p]
                         n == Len(transactions) IN
                     /\ Len(transactions') = n + 2
                     /\ SubSeq(transactions', 1, n) = transactions
                     /\ transactions'[n + 1] =
                           Row(c.from_account_id, "debit", c.amount,
                               transactions'[n + 1].timestamp)
                     /\ transactions'[n + 2] =
                           Row(c.to_account_id, "credit", c.amount,
                               transactions'[n + 1].timestamp)
                ELSE transactions' = transactions]_vars
    /\ [][transactions' # transactions
             => \E p \in Procs : Returned(p) /\ proc'[p].ret.success]_vars

C4_Witness ==
    /\ proc[1].pc = "idle"
    /\ proc[1].ret.success
    /\ transactions = <<Row(1, "debit", 100, 1), Row(2, "credit", 100, 1)>>

\* C5: an exception of the storage layer in any statement of a transfer
\* makes the transfer return (False, "Transfer failed ...") and leaves every
\* balance and the transaction log as they were; no statement before the
\* commit reaches the database file.
C5_ExceptionRollsBack ==
    [][\A p \in Procs :
          /\ (proc[p].pc \in StorePcs /\ Stepped(p)
                 /\ proc'[p].ret.message.text = "Transfer failed")
                => /\ Returned(p)
                   /\ ~proc'[p].ret.success
                   /\ StoreUnchanged
          /\ (proc[p].pc \in StorePcs /\ proc'[p].pc \in StorePcs)
                => StoreUnchanged]_vars

\* The exception was raised by the second INSERT: after both balance updates
\* and the first transaction insert.
C5_Witness ==
    /\ proc[1].pc = "idle"
    /\ proc[1].ret = [success |-> FALSE, message |-> Msg("Transfer failed", 169)]
    /\ accounts[1].balance = Account1Balance
    /\ accounts[2].balance = Account2Balance
    /\ transactions = <<>>

\* C6: the operation library's transfer returns failure for an amount <= 0
\* or > 1,000,000 without entering the store's transfer, balances and log
\* unchanged; an amount of exactly 1,000,000 enters the store's transfer.
C6_AmountGate ==
    [][\A p \in Procs :
          (proc[p].pc = "ops_transfer" /\ Stepped(p))
             => /\ StoreUnchanged
                /\ (proc[p].amount <= 0 \/ proc[p].amount > 1000000)
                      => /\ proc'[p].pc \in {"idle", "tool_transfer_done"}
                         /\ ~proc'[p].ret.success
                         /\ proc'[p].ret.message.text \in
                               {"Amount must be positive",
                                "Amount exceeds maximum transfer limit"}
                /\ proc[p].amount = 1000000 => proc'[p].pc = "select_from"]_vars

C6_Witness ==
    /\ proc[1].pc = "idle"
    /\ proc[1].ret = [success |-> FALSE,
                      message |-> Msg("Amount exceeds maximum transfer limit", 0)]
    /\ accounts # <<>>

\* C7: the store's transfer returns (False, message) and changes nothing
\* when the source account is missing, when the destination account is
\* missing, and when the source balance is below the amount; the message
\* names which.
C7_TransferFailsByValue ==
    [][\A p \in Procs :
          LET c == proc[p]
              said(text, arg) ==
                 /\ Returned(p)
                 /\ StoreUnchanged
                 /\ ~proc'[p].ret.success
                 /\ proc'[p].ret.message \in
                       {Msg(text, arg), Msg("Transfer failed", StatementLine(c.pc))}
          IN /\ (c.pc = "select_from" /\ Stepped(p)
                    /\ ~AccountExists(c.from_account_id))
                   => said("Source account not found", c.from_account_id)
             /\ (c.pc = "select_to" /\ Stepped(p)
                    /\ ~AccountExists(c.to_account_id))
                   => said("Destination account not found", c.to_account_id)
             /\ (c.pc = "select_to" /\ Stepped(p)
                    /\ AccountExists(c.to_account_id)
                    /\ accounts[c.from_account_id].balance < c.amount)
                   => said("Insufficient balance. Available",
                           accounts[c.from_account_id].balance)]_vars

C7_Witness ==
    /\ proc[1].pc = "idle"
    /\ proc[1].ret = [success |-> FALSE,
                      message |-> Msg("Destination account not found", 3)]
    /\ Len(accounts) = 2

\* C8: a call of simulate_transaction changes no balance, no account and no
\* transaction row, affordable or not, and a call that repeats the inputs of
\* the call before it, with nothing done in between, returns the same result.
C8_SimulateReadOnly ==
    [][\A p \in Procs :
          (Stepped(p) /\ calls' # calls /\ proc'[p].op = "simulate_transaction")
             => /\ StoreUnchanged
                /\ users' = users
                /\ (/\ proc[p].op = "simulate_transaction"
                    /\ proc[p].from_account_id = proc'[p].from_account_id
                    /\ proc[p].amount = proc'[p].amount)
                      => proc'[p].result = proc[p].result]_vars

\* The second call found the amount unaffordable and both balances are the
\* ones setup stored.
C8_Witness ==
    /\ proc[1].pc = "idle"
    /\ proc[1].op = "simulate_transaction"
    /\ calls = 2
    /\ proc[1].result = [affordable |-> FALSE, current_balance |-> Account1Balance,
                         projected_balance |-> Account1Balance - 10000,
                         amount |-> 10000]
    /\ accounts = <<[user_id |-> 1, balance |-> Account1Balance],
                    [user_id |-> 1, balance |-> Account2Balance]>>
    /\ transactions = <<>>

\* C9: for an account that exists simulate_transaction returns the stored
\* balance as current_balance, current_balance - amount as projected_balance
\* and projected_balance >= 0 as affordable, without an error, so the whole
\* balance is affordable; for a missing account it returns an error with
\* affordable false, current_balance 0 and projected_balance -amount.
C9_SimulateResult ==
    \A p \in Procs :
       (proc[p].pc = "idle" /\ proc[p].op = "simulate_transaction") =>
          LET id == proc[p].from_account_id
              amount == proc[p].amount
              r == proc[p].result IN
          /\ r.amount = amount
          /\ IF id \in 1..Len(accounts)
             THEN /\ r.current_balance = accounts[id].balance
                  /\ r.projected_balance = accounts[id].balance - amount
                  /\ r.affordable = (r.projected_balance >= 0)
                  /\ amount = accounts[id].balance => r.affordable
                  /\ "error" \notin DOMAIN r
             ELSE /\ "error" \in DOMAIN r
                  /\ r.error.text = "Account not found"
                  /\ ~r.affordable
                  /\ r.current_balance = 0
                  /\ r.projected_balance = 0 - amount

\* The amount is the whole balance of account 2.
C9_Witness ==
    /\ proc[1].pc = "idle"
    /\ proc[1].op = "simulate_transaction"
    /\ proc[1].from_account_id = 2
    /\ Len(accounts) = 2
    /\ proc[1].amount = accounts[2].balance
    /\ proc[1].result.affordable
    /\ proc[1].result.projected_balance = 0

\* C10: _execute_tool resolves every name of the synonym table, in any case,
\* to one of the five canonical operations and runs it; a name whose
\* lower-case form the table does not hold returns {success: False, error}
\* with an error carrying the name as given and the normalized name; a
\* missing name returns {success: False, error} as well.
C10_ToolNameNormalization ==
    \A p \in Procs :
       (proc[p].pc = "idle" /\ proc[p].op = "execute_tool") =>
          LET name == proc[p].tool_name
              r == proc[p].result
              table == {"get_balance", "account_balance_check", "check_balance",
                        "balance_check", "transfer_money", "transfer_funds",
                        "transfer", "get_transactions", "fetch_transactions",
                        "recent_transactions", "simulate_transaction", "what_if",
                        "affordability_check", "get_insights",
                        "spending_insights", "insights"}
              inTable == name.t = "str" /\ Lower(name.s) \in table
          IN IF name = None
             THEN r = [success |-> FALSE, error |-> Msg("Tool name is missing", 0)]
             ELSE IF inTable
             THEN /\ proc[p].normalized_tool.t = "str"
                  /\ proc[p].normalized_tool.s \in
                        {"get_balance", "transfer_money", "get_transactions",
                         "simulate_transaction", "get_insights"}
                  /\ r.success \/ r.error.text # "Unknown tool"
             ELSE /\ proc[p].normalized_tool = name
                  /\ r = [success |-> FALSE,
                          error |-> [text |-> "Unknown tool", tool_name |-> name,
                                     normalized |-> name]]

C10_Witness ==
    /\ proc[1].pc = "idle"
    /\ proc[1].op = "execute_tool"
    /\ proc[1].tool_name = StrV("bogus")
    /\ proc[1].result.error = [text |-> "Unknown tool", tool_name |-> StrV("bogus"),
                               normalized |-> StrV("bogus")]

\* C11: a step of a canonical operation that needs an account and names
\* none is run on the first account in storage when there is one: it
\* succeeds for account 1, and for get_balance it returns that account's
\* balance.
C11_DefaultAccountFallback ==
    \A p \in Procs :
       (/\ proc[p].pc = "idle"
        /\ proc[p].op = "execute_tool"
        /\ proc[p].normalized_tool \in
              {StrV("get_balance"), StrV("get_transactions"),
               StrV("simulate_transaction"), StrV("get_insights")}
        /\ proc[p].parameters # None
        /\ ~Truthy(proc[p].parameters.account_id)
        /\ proc[p].normalized_tool = StrV("simulate_transaction")
              => Truthy(proc[p].parameters.amount)
        /\ ~proc[p].caught
        /\ accounts # <<>>)
          => /\ proc[p].result.success
             /\ proc[p].result.account_id = 1
             /\ proc[p].normalized_tool = StrV("get_balance")
                   => proc[p].result.balance = accounts[1].balance

\* The three transfers of PlanArgs: the second one asks for more than the
\* source holds.
ThreeTransfers ==
    CHOOSE plan \in PlanArgs :
       /\ Len(plan.steps) = 3
       /\ \A i \in 1..3 : plan.steps[i].action = "transfer"

\* C12: execute_plan runs the steps of the plan in list order, each once,
\* and returns only after the last one, whatever the steps returned; while a
\* plan runs the ledger changes only when a transfer commits, and no row of
\* the transaction log an earlier step wrote is changed or removed.
C12_StepsInOrderOnce ==
    /\ [](\A p \in Procs :
            proc[p].op = "execute_plan" =>
               /\ Len(proc[p].step_results) = proc[p].step
               /\ \A i \in 1..Len(proc[p].step_results) :
                     proc[p].step_results[i].step = i
               /\ proc[p].step <= Len(proc[p].plan.steps)
               /\ proc[p].pc = "idle" => proc[p].step = Len(proc[p].plan.steps))
    /\ [][\A p \in Procs :
             (proc[p].op = "execute_plan" /\ proc[p].pc # "idle" /\ Stepped(p)) =>
                /\ proc'[p].step \in {proc[p].step, proc[p].step + 1}
                /\ proc'[p].plan = proc[p].plan
                /\ SubSeq(proc'[p].step_results, 1, Len(proc[p].step_results))
                      = proc[p].step_results
                /\ (StoreUnchanged
                      \/ (proc[p].pc = "commit" /\ proc'[p].ret.success))
                /\ Len(transactions') >= Len(transactions)
                /\ SubSeq(transactions', 1, Len(transactions)) = transactions]_vars

\* The plan of three transfers has returned: step 2 failed, and the rows and
\* balances of steps 1 and 3 are in the ledger.
C12_Witness ==
    /\ proc[1].pc = "idle"
    /\ proc[1].op = "execute_plan"
    /\ proc[1].plan = ThreeTransfers
    /\ proc[1].all_results.step_1.success
    /\ ~proc[1].all_results.step_2.success
    /\ proc[1].all_results.step_3.success
    /\ Len(transactions) = 4
    /\ transactions[1].account_id = 1 /\ transactions[1].type = "debit"
    /\ transactions[4].account_id = 1 /\ transactions[4].type = "credit"
    /\ accounts[1].balance = Account1Balance
    /\ accounts[2].balance = Account2Balance

\* C13: no exception leaves _execute_tool or execute_plan.  Every step ends
\* with a result map that carries a success flag, and an error when the flag
\* is false; a step whose branch raised (parameters that are no mapping, an
\* amount of the wrong type, a failure of the storage layer), a step with an
\* unknown tool, a step without a tool name and a step whose transfer or
\* balance lookup names a missing account end with exactly {success: False,
\* error} (the account not found by get_balance is named as well).
C13_ExecutorNeverRaises ==
    \A p \in Procs :
       /\ proc[p].pc # "raised"
       /\ ~IsRaised(proc[p].result)
       /\ proc[p].caught =>
             DOMAIN proc[p].result = {"success", "error"} /\ ~proc[p].result.success
       /\ proc[p].op = "execute_plan" =>
             \A i \in 1..Len(proc[p].step_results) :
                LET r == proc[p].step_results[i].result
                    st == proc[p].plan.steps[i]
                    failure == /\ r.success = FALSE
                               /\ "error" \in DOMAIN r
                               /\ DOMAIN r \subseteq {"success", "error", "account_id"}
                IN /\ r.success \in BOOLEAN
                   /\ ~r.success => failure
                   /\ ~Truthy(st.tool) => failure
                   /\ (Truthy(st.tool) /\ NormalizeTool(st.tool).s \notin
                          {"get_balance", "transfer_money", "get_transactions",
                           "simulate_transaction", "get_insights"}) => failure
                   /\ (Truthy(st.tool) /\ st.parameters = None) => failure
                   /\ (/\ Truthy(st.tool)
                       /\ st.parameters # None
                       /\ NormalizeTool(st.tool).s \in {"transfer_money",
                                                        "simulate_transaction"}
                       /\ st.parameters.amount.t = "str") => failure
                   /\ (/\ Truthy(st.tool)
                       /\ st.parameters # None
                       /\ NormalizeTool(st.tool).s \in {"get_balance",
                                                        "transfer_money"}
                       /\ Truthy(st.parameters.account_id)
                       /\ ~AccountExists(st.parameters.account_id.n)) => failure

\* The plan with an unknown tool, an amount of the wrong type and a step
\* without parameters has returned.
C13_Witness ==
    /\ proc[1].pc = "idle"
    /\ proc[1].op = "execute_plan"
    /\ Len(proc[1].step_results) = 3
    /\ proc[1].step_results[1].result.error.text = "Unknown tool"
    /\ proc[1].step_results[2].result = Fail(Msg("TypeError", 0))
    /\ proc[1].step_results[3].result = Fail(Msg("AttributeError", 0))
    /\ proc[1].all_results.step_3 = Fail(Msg("AttributeError", 0))

\* C14: when execute_plan returns, the result map holds the result of every
\* step under step_<id>, and every other key holds the value of the last
\* step, in list order, handed to _execute_tool whose result has that key;
\* it has no other keys.
C14_MergedResults ==
    \A p \in Procs :
       (proc[p].pc = "idle" /\ proc[p].op = "execute_plan") =>
          LET all == proc[p].all_results
              rs == proc[p].step_results
              steps == proc[p].plan.steps
              stepKeys == {StepKey(steps[i].step_id) : i \in 1..Len(rs)}
              having(k) == {j \in 1..Len(rs) :
                              rs[j].merged /\ k \in DOMAIN rs[j].result}
              last(k) == CHOOSE j \in having(k) : \A i \in having(k) : i <= j
          IN /\ Len(rs) = Len(steps)
             /\ \A i \in 1..Len(rs) : all[StepKey(steps[i].step_id)] = rs[i].result
             /\ \A k \in DOMAIN all \ stepKeys :
                   having(k) # {} /\ all[k] = rs[last(k)].result[k]
             /\ \A j \in 1..Len(rs) :
                   rs[j].merged => DOMAIN rs[j].result \subseteq DOMAIN all

\* A failed transfer, then a balance: success is the flag of the second step
\* and error the text of the first.
C14_Witness ==
    /\ proc[1].pc = "idle"
    /\ proc[1].op = "execute_plan"
    /\ Len(proc[1].plan.steps) = 2
    /\ proc[1].plan.steps[1].action = "transfer"
    /\ proc[1].all_results.step_1.success = FALSE
    /\ proc[1].all_results.step_2 =
          [success |-> TRUE, balance |-> Account1Balance, account_id |-> 1]
    /\ proc[1].all_results.success = TRUE
    /\ proc[1].all_results.balance = Account1Balance
    /\ proc[1].all_results.error = proc[1].all_results.step_1.error

\* C15: _parse_time_period returns an integer for every value and never
\* raises; an integer is returned as it is, a float truncated towards zero,
\* a text gives its first embedded integer, any other value the default of
\* 30 days; and normalizing the result again gives the same result.
C15_TimePeriodNormalization ==
    \A p \in Procs :
        proc[p].op = "parse_time_period" =>
            LET x == proc[p].arg
                y == proc[p].out
            IN /\ ~IsRaised(y)
               /\ y.t = "int"
               /\ ParseTimePeriod(y) = y
               /\ x.t = "int" => y.n = x.n
               /\ x.t = "float" =>
                     /\ (x.tenths >= 0 => 10 * y.n <= x.tenths /\ x.tenths < 10 * (y.n + 1))
                     /\ (x.tenths < 0 => 10 * y.n >= x.tenths /\ x.tenths > 10 * (y.n - 1))
               /\ x = TextV(<<"-", "5", " ", "d", "a", "y", "s">>) => y.n = 5
               /\ x = TextV(<<"3", ".", "5">>) => y.n = 3
               /\ x = TextV(<<"l", "a", "s", "t", " ", "7", " ", "o", "r", " ", "1", "4">>)
                     => y.n = 7
               /\ x.t = "text" /\ (\A i \in 1..Len(x.chars) : ~IsDigit(x.chars[i]))
                     => y.n = DefaultDays
               /\ x.t \in {"none", "list"} => y.n = DefaultDays

\* C16: validate returns (False, the step's error text) when the step's
\* success is false or absent; otherwise a transfer step is valid, a what_if
\* step is valid exactly when the result is affordable, a check_balance step
\* exactly when a balance is present and not negative, and a step of any
\* other action is valid.
C16_ValidationRules ==
    \A p \in Procs :
        proc[p].op = "validate" =>
            LET r == proc[p].arg.step_result
                step == proc[p].arg.step_plan
                action == IF "action" \in DOMAIN step THEN step.action ELSE ""
                succeeded == "success" \in DOMAIN r /\ r.success
                v == proc[p].out
            IN /\ ~succeeded => ~v.is_valid
               /\ ~succeeded /\ "error" \in DOMAIN r => v.message = r.error
               /\ succeeded /\ action = "transfer" => v.is_valid
               /\ succeeded /\ action = "what_if" =>
                     (v.is_valid <=> ("affordable" \in DOMAIN r /\ r.affordable))
               /\ succeeded /\ action = "check_balance" =>
                     (v.is_valid <=> ("balance" \in DOMAIN r /\ r.balance >= 0))
               /\ succeeded /\ action \notin {"transfer", "what_if", "check_balance"}
                     => v.is_valid

\* A successful check_balance result with a balance of zero was validated
\* and found valid.
C16_Witness ==
    /\ proc[1].op = "validate"
    /\ proc[1].arg.step_plan = Step(1, "check_balance", StrV("get_balance"), NoParameters)
    /\ proc[1].arg.step_result = [success |-> TRUE, balance |-> 0, account_id |-> 1]
    /\ proc[1].out.is_valid

\* Replies that tell the user the operation succeeded.
PresentsSuccess(reply) ==
    reply.text \in {"Transfer successful!", "This transaction is affordable!",
                    "Operation completed successfully."}

\* C17: when the plan requires validation and a step of it failed
\* validation, the reply process_query returns does not present the outcome
\* as a success.
C17_FailedValidationNotSuccess ==
    \A p \in Procs :
        (/\ proc[p].op = "process_query"
         /\ proc[p].pc = "idle"
         /\ Get(proc[p].plan, "requires_validation", FALSE)
         /\ "validation_error" \in DOMAIN proc[p].all_results)
        => ~PresentsSuccess(proc[p].reply)

\* The classifier's result has a confidence below 0.5 or none.
ParsedLow(c) ==
    /\ c.op = "process_query"
    /\ c.parsed # None
    /\ LET confidence == Get(c.parsed, "confidence", IntV(0)) IN
       confidence # None /\ confidence.n < ConfidenceThreshold

\* Neither the planner nor the executor has been invoked.
NothingPlanned(c) ==
    /\ c.plan = NoPlan /\ c.llm_plan = None /\ c.plan_failures = 0
    /\ c.step = 0 /\ c.step_results = <<>> /\ c.all_results = <<>>
    /\ c.tool_name = None

\* C18: when the classifier's result has a confidence below 0.5 or no
\* confidence, the step after parse returns the rephrase message; in no
\* state of that query has the planner or the executor been invoked, and no
\* step of that query changes the ledger.
C18_LowConfidenceAborts ==
    [][\A p \in Procs :
          /\ ParsedLow(proc[p]) /\ proc[p].pc = "confidence" /\ Stepped(p)
                => proc'[p].pc = "idle" /\ proc'[p].reply = RephraseReply
          /\ ParsedLow(proc'[p])
                => /\ NothingPlanned(proc'[p])
                   /\ proc'[p].pc \in {"confidence", "idle"}
                   /\ StoreUnchanged]_vars

\* After setup a query classified as a transfer without a confidence was
\* answered with the rephrase message.
C18_Witness ==
    /\ Len(accounts) = 2
    /\ proc[1].op = "process_query"
    /\ proc[1].pc = "idle"
    /\ proc[1].parsed = [intent |-> "transfer", entities |-> TransferEntities(100)]
    /\ proc[1].reply = RephraseReply

\* The planner failed for every model or returned no step.
PlannerGaveNothing(c) ==
    \/ c.plan_failures = 1 + Len(GROQ_FALLBACK_MODELS)
    \/ c.llm_plan # None /\ Get(c.llm_plan, "steps", <<>>) = <<>>

\* C19: when the planner call failed for every model or returned an empty
\* step list, the plan plan() returns has exactly one step; its tool is the
\* canonical tool of the intent when the intent is one of the five known
\* ones, its parameters are the entities, and requires_validation is true
\* exactly when the intent is transfer or what_if.
C19_FallbackPlan ==
    \A p \in Procs :
        (/\ proc[p].op = "process_query"
         /\ proc[p].pc \notin {"parse", "confidence", "plan", "raised"}
         /\ PlannerGaveNothing(proc[p]))
        => LET c == proc[p] IN
           /\ Len(c.plan.steps) = 1
           /\ c.intent = "check_balance" => c.plan.steps[1].tool = StrV("get_balance")
           /\ c.intent = "transfer" => c.plan.steps[1].tool = StrV("transfer_money")
           /\ c.intent = "transactions" => c.plan.steps[1].tool = StrV("get_transactions")
           /\ c.intent = "what_if" => c.plan.steps[1].tool = StrV("simulate_transaction")
           /\ c.intent = "insights" => c.plan.steps[1].tool = StrV("get_insights")
           /\ c.plan.steps[1].parameters = c.entities
           /\ c.plan.requires_validation <=> c.intent \in {"transfer", "what_if"}

\* The planner failed for every model on a what_if query, and the query was
\* answered from the one-step plan.
C19_Witness ==
    /\ proc[1].op = "process_query"
    /\ proc[1].pc = "idle"
    /\ proc[1].intent = "what_if"
    /\ proc[1].plan_failures = 1 + Len(GROQ_FALLBACK_MODELS)
    /\ proc[1].plan.requires_validation
    /\ proc[1].reply # None

\* C20: when every model attempt of parse has failed, parse returns
\* {intent: 'unknown', entities: {}, confidence: 0.0} and raises nothing;
\* process_query then answers with the rephrase message without planning,
\* and no step of that query changes the ledger.
C20_DegradedParse ==
    [][\A p \in Procs :
          (/\ proc'[p].op = "process_query"
           /\ proc'[p].parse_failures = 1 + Len(GROQ_FALLBACK_MODELS))
          => /\ proc'[p].parsed = [intent |-> "unknown", entities |-> NoParameters,
                                   confidence |-> IntV(0)]
             /\ proc'[p].pc \in {"confidence", "idle"}
             /\ proc'[p].pc = "idle" => proc'[p].reply = RephraseReply
             /\ NothingPlanned(proc'[p])
             /\ StoreUnchanged]_vars

\* After setup every attempt of the classifier failed and the query was
\* answered with the rephrase message.
C20_Witness ==
    /\ Len(accounts) = 2
    /\ proc[1].op = "process_query"
    /\ proc[1].pc = "idle"
    /\ proc[1].parse_failures = 1 + Len(GROQ_FALLBACK_MODELS)
    /\ proc[1].reply = RephraseReply

\* C21: a stored balance or the transaction log changes only in the step
\* in which a transfer returns success; an account appears only in a step of
\* setup, which leaves the existing accounts and the log alone.  A step of
\* _execute_tool in a reading branch (get_balance, get_transactions,
\* get_insights, simulate_transaction), a call of simulate_transaction and
\* the return of a failed transfer leave accounts and log unchanged.
C21_OnlyTransferOrCreationMutates ==
    [][/\ \A p \in Procs :
             /\ (proc[p].pc = "execute_tool" /\ Stepped(p)) => StoreUnchanged
             /\ (Stepped(p) /\ calls' # calls
                    /\ proc'[p].op = "simulate_transaction") => StoreUnchanged
             /\ (Returned(p) /\ ~proc'[p].ret.success) => StoreUnchanged
       /\ ~StoreUnchanged =>
             \/ \E p \in Procs : Returned(p) /\ proc'[p].ret.success
             \/ /\ \E p \in Procs :
                      proc[p].pc \in {"create_account1", "create_account2"}
                /\ Len(accounts') = Len(accounts) + 1
                /\ SubSeq(accounts', 1, Len(accounts)) = accounts
                /\ transactions' = transactions]_vars

\* After a transfer of 100 from account 1 the get_balance tool read the
\* balance the transfer left, and the log holds the transfer's two rows.
C21_Witness ==
    /\ proc[1].pc = "idle"
    /\ proc[1].op = "execute_tool"
    /\ proc[1].normalized_tool = StrV("get_balance")
    /\ proc[1].result = [success |-> TRUE, balance |-> Account1Balance - 100,
                         account_id |-> 1]
    /\ Len(transactions) = 2
    /\ accounts[1].balance = Account1Balance - 100

\* C22: every row of the transaction log has an amount above zero and the
\* type 'debit' or 'credit', and no step modifies or removes a row the log
\* already holds: the log only grows at its end.
C22_RowsPositiveAppendOnly ==
    /\ [](\A i \in 1..Len(transactions) :
             /\ transactions[i].amount > 0
             /\ transactions[i].type \in {"debit", "credit"})
    /\ [][/\ Len(transactions') >= Len(transactions)
           /\ SubSeq(transactions', 1, Len(transactions)) = transactions]_vars

\* After a transfer that succeeded, a transfer of a non-positive amount was
\* refused and the log still holds the first transfer's two rows.
C22_Witness ==
    /\ proc[1].pc = "idle"
    /\ calls = 2
    /\ proc[1].ret = [success |-> FALSE, message |-> Msg("Amount must be positive", 0)]
    /\ Len(transactions) = 2
    /\ transactions = <<Row(1, "debit", 100, transactions[1].timestamp),
                        Row(2, "credit", 100, transactions[1].timestamp)>>

\* C23: get_recent_transactions(account_id, limit) returns rows of the
\* log, each once and each of account_id, at most limit of them, ordered by
\* timestamp with the most recent first; it returns limit rows when the
\* account has that many, all of them otherwise, and no row it leaves out is
\* more recent than a row it returns.
C23_RecentTransactions ==
    \A p \in Procs :
       proc[p].op = "get_recent_transactions" =>
          LET account_id == proc[p].arg.account_id
              limit == proc[p].arg.limit
              out == proc[p].out
              mine == {i \in 1..Len(transactions) :
                          transactions[i].account_id = account_id}
              returned == {out[i].id : i \in 1..Len(out)}
          IN /\ Len(out) <= limit
             /\ returned \subseteq mine
             /\ Cardinality(returned) = Len(out)
             /\ \A i \in 1..Len(out) :
                   /\ out[i].type = transactions[out[i].id].type
                   /\ out[i].amount = transactions[out[i].id].amount
                   /\ out[i].timestamp = transactions[out[i].id].timestamp
             /\ \A i, j \in 1..Len(out) :
                   i < j => out[i].timestamp >= out[j].timestamp
             /\ Len(out) = IF Cardinality(mine) < limit
                           THEN Cardinality(mine) ELSE limit
             /\ \A k \in mine \ returned : \A i \in 1..Len(out) :
                   transactions[k].timestamp <= out[i].timestamp

\* Account 1 has a row of each of two transfers made at different times,
\* and a read with limit 1 returned the later one.
C23_Witness ==
    /\ proc[1].pc = "idle"
    /\ proc[1].op = "get_recent_transactions"
    /\ proc[1].arg = [account_id |-> 1, limit |-> 1]
    /\ Len(transactions) = 4
    /\ transactions[1].account_id = 1
    /\ transactions[1].timestamp < transactions[3].timestamp
    /\ Len(proc[1].out) = 1
    /\ proc[1].out[1].id \in {3, 4}
    /\ proc[1].out[1].timestamp = transactions[3].timestamp

\* The line, stripped and in lower case, is one of the words.
LineIs(line, words) == line.t = "line" /\ line.text \in words

\* C24: an exception that leaves the handling of an input is caught: the
\* next step prints the error and the loop is at its prompt again, or a
\* keyboard interrupt ends the loop.  The loop ends only in a step that read
\* quit, exit or q at the prompt or that a keyboard interrupt caused.  The
\* step that starts process_query read a line that is not empty, not one of
\* the words that end the loop and not 'setup', in any case and with any
\* blanks around it; a line that is 'setup' starts setup_demo_data.
C24_CommandLoop ==
    [][\A p \in Procs :
          /\ (proc[p].pc = "raised" /\ Stepped(p))
                => \/ proc'[p].pc = "idle" /\ proc'[p].printed = Msg("Error", 0)
                   \/ proc'[p].pc = "exited"
                         /\ proc'[p].user_input = KeyboardInterrupt
          /\ (proc'[p].pc = "exited" /\ proc[p].pc # "exited")
                => \/ proc'[p].user_input = KeyboardInterrupt
                   \/ proc[p].pc = "idle"
                         /\ LineIs(proc'[p].user_input, {"quit", "exit", "q"})
          /\ (proc[p].pc = "idle" /\ proc'[p].pc = "parse")
                => /\ proc'[p].user_input.t = "line"
                   /\ ~LineIs(proc'[p].user_input, {"", "quit", "exit", "q", "setup"})
          /\ (proc[p].pc = "idle" /\ Stepped(p)
                 /\ LineIs(proc'[p].user_input, {"setup"}))
                => proc'[p].pc = "create_user"
          /\ (proc[p].pc = "idle" /\ Stepped(p)
                 /\ LineIs(proc'[p].user_input, {"quit", "exit", "q"}))
                => proc'[p].pc = "exited"]_vars

\* The classifier returned a null confidence, process_query raised, the
\* loop printed the error and is at its prompt with the ledger of setup.
C24_Witness ==
    /\ proc[1].pc = "idle"
    /\ proc[1].op = "process_query"
    /\ proc[1].parsed # None
    /\ "confidence" \in DOMAIN proc[1].parsed
    /\ proc[1].parsed.confidence = None
    /\ proc[1].printed = Msg("Error", 0)
    /\ proc[1].reply = None
    /\ Len(accounts) = 2

\* Process p makes an attempt of the loop of parse or of plan in this step.
Attempting(p, loop) == proc[p].pc = loop /\ Stepped(p)

\* C25: every attempt of parse and of plan tries the client's current
\* model when it is the first of the call and the next configured fallback
\* model, in the configured order, when it is not; a call makes at most
\* 1 + (number of fallback models) attempts; an attempt that succeeds ends
\* the call and makes the model it tried the client's current model, an
\* attempt that fails leaves the current model as it is and ends the call
\* only when it was the last fallback's; and no other step changes a
\* client's current model, so that the next call starts with it.
C25_ModelFallbackOrder ==
    [][LET n == Len(GROQ_FALLBACK_MODELS)
           attempt(p, loop, current, currentAfter, failures, failuresAfter) ==
               Attempting(p, loop) =>
                  LET k == Len(proc[p].tried)
                      model == IF k = 0 THEN current ELSE GROQ_FALLBACK_MODELS[k]
                  IN /\ k <= n
                     /\ proc'[p].tried = Append(proc[p].tried, model)
                     /\ IF failuresAfter = failures
                        THEN proc'[p].pc # loop /\ currentAfter = model
                        ELSE /\ currentAfter = current
                             /\ proc'[p].pc = loop <=> k < n
       IN \A p \in Procs :
             /\ attempt(p, "parse", proc[p].parser_model, proc'[p].parser_model,
                        proc[p].parse_failures, proc'[p].parse_failures)
             /\ attempt(p, "plan", proc[p].planner_model, proc'[p].planner_model,
                        proc[p].plan_failures, proc'[p].plan_failures)
             /\ proc[p].pc # "parse" => proc'[p].parser_model = proc[p].parser_model
             /\ proc[p].pc # "plan" => proc'[p].planner_model = proc[p].planner_model]_vars

\* In an earlier call of parse the second fallback model succeeded; this
\* call tried it first, it failed, and the first fallback model succeeded.
C25_Witness ==
    /\ proc[1].pc = "idle"
    /\ proc[1].op = "parse"
    /\ calls >= 2
    /\ proc[1].tried = <<GROQ_FALLBACK_MODELS[2], GROQ_FALLBACK_MODELS[1]>>
    /\ proc[1].parser_model = GROQ_FALLBACK_MODELS[1]
    /\ proc[1].parse_failures = 1

\* The steps of c's plan, among the first n, that fail validation.
FailedValidation(c, n) ==
    {i \in 1..n :
        ~Validate(c.all_results[StepKey(c.plan.steps[i].step_id)],
                  c.plan.steps[i]).is_valid}

\* C26: the validation loop starts when every step of the plan has been
\* executed; it validates nothing when requires_validation is not true, and
\* otherwise one step per round, in list order; a round changes neither the
\* ledger nor a step's result nor a merged field, and only sets
\* validation_error, to the step's message, when the step fails validation;
\* when the loop has ended validation_error is the message of the last step
\* that failed validation, and absent when none did.
C26_ValidationAfterExecution ==
    [][\A p \in Procs :
          (proc[p].pc = "validate" /\ Stepped(p)) =>
             LET c == proc[p]
                 d == proc'[p]
                 n == Len(c.plan.steps)
                 required == "requires_validation" \in DOMAIN c.plan
                                /\ c.plan.requires_validation
             IN /\ c.step = n /\ Len(c.step_results) = n
                /\ StoreUnchanged
                /\ d.step_results = c.step_results /\ d.plan = c.plan
                /\ \A k \in DOMAIN c.all_results \ {"validation_error"} :
                      k \in DOMAIN d.all_results /\ d.all_results[k] = c.all_results[k]
                /\ DOMAIN d.all_results \subseteq
                      DOMAIN c.all_results \cup {"validation_error"}
                /\ ~required => d.validated = 0 /\ d.all_results = c.all_results
                                   /\ d.pc = "respond"
                /\ (required /\ c.validated < n) =>
                      /\ d.validated = c.validated + 1 /\ d.pc = "validate"
                      /\ FailedValidation(d, d.validated) = {}
                            => "validation_error" \notin DOMAIN d.all_results
                      /\ FailedValidation(d, d.validated) # {}
                            => LET last == CHOOSE i \in FailedValidation(d, d.validated) :
                                             \A j \in FailedValidation(d, d.validated) : j <= i
                               IN d.all_results.validation_error =
                                     Validate(d.all_results[StepKey(d.plan.steps[last].step_id)],
                                              d.plan.steps[last]).message
                /\ (required /\ c.validated >= n) =>
                      d.validated = n /\ d.all_results = c.all_results
                         /\ d.pc = "respond"]_vars

\* Without accounts a transfer step and a balance step both failed, in
\* execution and then in validation, and validation_error is the message
\* of the balance step, the later one.
C26_Witness ==
    /\ proc[1].pc = "respond"
    /\ Get(proc[1].plan, "requires_validation", FALSE)
    /\ Len(proc[1].plan.steps) = 2
    /\ proc[1].validated = 2
    /\ "error" \in DOMAIN proc[1].all_results.step_1
    /\ proc[1].all_results.step_1.error.text = "Source account not found"
    /\ "validation_error" \in DOMAIN proc[1].all_results
    /\ proc[1].all_results.validation_error.text = "Account not found"

\* C27: a transfer of the operation library that no storage exception
\* interrupts returns success exactly when its source exists, its
\* destination exists, 0 < amount <= 1,000,000 and the source's balance is
\* at least the amount; when it returns success the source's balance is
\* lower by the amount and the destination's higher by the amount.
C27_TransferSucceedsIff ==
    [][\A p \in Procs :
          (Returned(p) /\ proc'[p].ret.message.text # "Transfer failed") =>
             LET from == proc[p].from_account_id
                 to == proc[p].to_account_id
                 amount == proc[p].amount
                 allowed == /\ from \in 1..Len(accounts)
                            /\ to \in 1..Len(accounts)
                            /\ 0 < amount /\ amount <= 1000000
                            /\ accounts[from].balance >= amount
             IN /\ proc'[p].ret.success <=> allowed
                /\ proc'[p].ret.success =>
                      /\ accounts'[from].balance = accounts[from].balance - amount
                      /\ accounts'[to].balance = accounts[to].balance + amount]_vars

\* C28: when a transfer whose source and destination are one existing
\* account returns, with success or with failure, the balance of that
\* account is what it was.
C28_SelfTransferKeepsBalance ==
    [][\A p \in Procs :
          (/\ Returned(p)
           /\ proc[p].from_account_id = proc[p].to_account_id
           /\ AccountExists(proc[p].from_account_id))
          => accounts'[proc[p].from_account_id].balance =
                accounts[proc[p].from_account_id].balance]_vars

\* C29: in the map execute_plan returns, when the top-level success is
\* true and a top-level error is present, the error is a field of the result
\* of the step merged last, the one the success comes from: no error of an
\* earlier step is left.
C29_SuccessAndErrorOfOneStep ==
    \A p \in Procs :
       (/\ proc[p].op = "execute_plan"
        /\ proc[p].pc = "idle"
        /\ "success" \in DOMAIN proc[p].all_results
        /\ proc[p].all_results.success
        /\ "error" \in DOMAIN proc[p].all_results)
       => LET merged == {i \in 1..Len(proc[p].step_results) :
                            proc[p].step_results[i].merged}
              last == CHOOSE i \in merged : \A j \in merged : j <= i
          IN "error" \in DOMAIN proc[p].step_results[last].result

\* plan has returned in this step.
PlanReturned(p) == proc[p].pc = "plan" /\ proc'[p].pc # "plan"

\* The loop of execute_plan is at a step that names no tool.
AtStepWithoutTool(p) ==
    /\ proc[p].pc = "plan_loop"
    /\ proc[p].step < Len(proc[p].plan.steps)
    /\ ~Truthy(CurrentStep(proc[p]).tool)

\* C30: a plan that plan returns has at least one step and every step has a
\* tool name that is not empty; a step the completion gave without one has
\* the tool of its action, else that of the intent, else get_balance, and a
\* step that had one is returned as it came. When execute_plan comes to a
\* step without a tool name it records a failure under the step's key,
\* leaves every other field of the results as it was, and goes on to the
\* next step of the loop (the step of the process is meant: the clock may
\* tick in between).
C30_EveryStepHasTool ==
    [][\A p \in Procs :
          /\ PlanReturned(p) =>
                LET c == proc'[p]
                    steps == c.plan.steps
                    raw == IF c.llm_plan = None THEN <<>>
                           ELSE Get(c.llm_plan, "steps", <<>>)
                    canonical(step) ==
                        LET action == IF "action" \in DOMAIN step
                                      THEN step.action ELSE c.intent
                        IN IF action \in DOMAIN intent_to_tool
                           THEN intent_to_tool[action]
                           ELSE IF c.intent \in DOMAIN intent_to_tool
                           THEN intent_to_tool[c.intent]
                           ELSE "get_balance"
                IN /\ steps # <<>>
                   /\ \A i \in 1..Len(steps) :
                         /\ "tool" \in DOMAIN steps[i]
                         /\ steps[i].tool.t = "str"
                         /\ steps[i].tool.s # ""
                   /\ raw # <<>> =>
                         /\ Len(steps) = Len(raw)
                         /\ \A i \in 1..Len(raw) :
                               IF "tool" \in DOMAIN raw[i] /\ Truthy(raw[i].tool)
                               THEN steps[i] = raw[i]
                               ELSE steps[i].tool = StrV(canonical(raw[i]))
          /\ (AtStepWithoutTool(p) /\ Stepped(p)) =>
                LET c == proc[p]
                    d == proc'[p]
                    key == StepKey(CurrentStep(c).step_id)
                IN /\ DOMAIN d.all_results = DOMAIN c.all_results \cup {key}
                   /\ d.all_results[key].success = FALSE
                   /\ d.all_results[key].error =
                         Msg("Tool name is missing from plan step", 0)
                   /\ \A k \in DOMAIN c.all_results \ {key} :
                         d.all_results[k] = c.all_results[k]
                   /\ d.pc = "plan_loop"
                   /\ d.step = c.step + 1
                   /\ d.plan = c.plan]_vars

\* plan has returned a two-step plan for a payment, an intent without a
\* tool: the completion's first step had no tool key and the second had
\* None, and both have get_balance now.
C30_Witness ==
    /\ proc[1].op = "plan"
    /\ proc[1].pc = "idle"
    /\ proc[1].intent = "payment"
    /\ proc[1].llm_plan # None
    /\ "steps" \in DOMAIN proc[1].llm_plan
    /\ Len(proc[1].llm_plan.steps) = 2
    /\ "tool" \notin DOMAIN proc[1].llm_plan.steps[1]
    /\ proc[1].llm_plan.steps[2].tool = None
    /\ proc[1].plan.steps[1].tool = StrV("get_balance")
    /\ proc[1].plan.steps[2].tool = StrV("get_balance")

====
